---- MODULE Spec2Model ----
(***************************************************************************)
(* Warmup orchestration of postal-warmup: the schedule, the daily batch,   *)
(* the manual send, the pending-check sweep and the statistics rollup      *)
(* (src/app/core/warmup_scheduler.py), with the sender, the mailbox        *)
(* checker and the schedule API they rest on.                              *)
(*                                                                         *)
(* Time is a clock of ticks; one tick is CHECK_DELAY_MINUTES, DayLen ticks *)
(* make a calendar day.  The store holds what is committed; a daily batch  *)
(* in progress keeps its uncommitted rows in its own session.              *)
(***************************************************************************)
EXTENDS Integers, Sequences, FiniteSets, TLC

VARIABLES
    now,          \* the clock (datetime.utcnow()), in ticks
    config,       \* app.config: the address pools and the mailbox credentials
    email_addresses, \* table email_addresses: a set of rows
    schedule,     \* table warmup_schedule: a set of rows
    executions,   \* table warmup_execution: rows in creation order
    emails,       \* table emails: rows in id order
    statistics,   \* table statistics: a set of rows
    session,      \* per invoker of send_daily_batch: its position and session
    ret,          \* per invoker: what its last send_daily_batch call returned
    postalSeq,    \* number of requests the provider has received
    senderCalls,  \* per date: messages that date's daily batches handed to the sender
    targetRead,   \* per date: the largest target_emails that date's batches read
    imapCalls,    \* per email id: calls made to the mailbox checker for it,
                  \* and how many of its checks met an error
    reply,        \* the last HTTP request served and the response to it
    sweeps        \* per invoker of check_pending_emails: its position and session

vars == <<now, config, sweeps, email_addresses, schedule, executions, emails, statistics, session, ret,
          postalSeq, senderCalls, targetRead, imapCalls, reply>>

----------------------------------------------------------------------------
(* Bounds of the model *)

MaxTime == 2
DayLen == 2
MaxTarget == 2
MaxSends == 2
MaxChecked == 2
MaxOver == 2
MaxDay == 2
MaxRequests == 2
MaxItems == 2
MaxCount == 11

(* The size limit of one check sweep *)
CHECK_LIMIT == 50
(* check_scheduled_at = sent_at + CHECK_DELAY_MINUTES: one tick *)
CHECK_DELAY == 1

----------------------------------------------------------------------------
(* Values *)

None == << >>
Some(x) == <<x>>
IsSet(o) == o # None
Val(o) == o[1]

DateOf(t) == t \div DayLen
Dates == 0..DateOf(MaxTime)
today == DateOf(now)

Invokers == {"cron", "http"}

(* The address pools and mailbox credentials of a deployment: one recipient
   with a credential; two recipients, one of them without a credential; no
   sender address at all. *)
OneRecipientConfig ==
    [SENDER_ADDRESSES |-> {"s@x"},
     RECIPIENT_ADDRESSES |-> {"a@x"},
     RECIPIENT_IMAP_PASSWORDS |-> {"a@x"}]
FullConfig ==
    [SENDER_ADDRESSES |-> {"s@x"},
     RECIPIENT_ADDRESSES |-> {"a@x", "b@x"},
     RECIPIENT_IMAP_PASSWORDS |-> {"a@x"}]
NoSenderConfig ==
    [SENDER_ADDRESSES |-> {},
     RECIPIENT_ADDRESSES |-> {"a@x"},
     RECIPIENT_IMAP_PASSWORDS |-> {"a@x"}]
Configs == {OneRecipientConfig, NoSenderConfig}

EngagementFolders == {"Archive", "Important", "Work"}

(* Python floats are IEEE 754 doubles.  A double is zero or m * 2^e with a
   53-bit significand m, 2^52 <= m < 2^53.  The significand and every other
   number beyond 31 bits is written in three limbs <<high, middle, low>> to
   the base 2^20. *)
Limb == 2^20

Carry(x) ==
    LET c1 == x[3] \div Limb
        c2 == (x[2] + c1) \div Limb
    IN  <<x[1] + c2, (x[2] + c1) % Limb, x[3] % Limb>>

Plus(x, y) == Carry(<<x[1] + y[1], x[2] + y[2], x[3] + y[3]>>)
Scale(x, k) == Carry(<<x[1] * k, x[2] * k, x[3] * k>>)
Leq(x, y) ==
    \/ x[1] < y[1]
    \/ x[1] = y[1] /\ x[2] < y[2]
    \/ x[1] = y[1] /\ x[2] = y[2] /\ x[3] <= y[3]

(* x shifted right by s bits, 0 < s < 20, and the bits shifted out *)
ShiftRight(x, s) ==
    LET d == 2^s
        up == Limb \div d
    IN  <<x[1] \div d, (x[2] \div d) + (x[1] % d) * up, (x[3] \div d) + (x[2] % d) * up>>
Dropped(x, s) == x[3] % (2^s)

Zero == [m |-> <<0, 0, 0>>, e |-> 0]

(* round to nearest, ties to even: kept * 2^e is the value cut off after 53
   bits, dropped the part cut off and half the weight of half a unit *)
Round(kept, e, dropped, half) ==
    IF dropped > half \/ (dropped = half /\ kept[3] % 2 = 1)
    THEN LET up == Plus(kept, <<0, 0, 1>>)
         IN  IF up = <<2^13, 0, 0>> THEN [m |-> <<2^12, 0, 0>>, e |-> e + 1]
             ELSE [m |-> up, e |-> e]
    ELSE [m |-> kept, e |-> e]

(* the least k with a * 2^k >= n, for 0 < a <= n *)
RECURSIVE LeadShift(_, _)
LeadShift(a, n) == IF a >= n THEN 0 ELSE 1 + LeadShift(2 * a, n)

(* int / int of Python for 0 <= a <= n, 0 < n: the double nearest to a/n.
   With a * 2^k / n in [1, 2), the 53 bits of the significand come from
   long division to the base 2^20: the leading 1 and 12 bits, then two
   limbs of 20 bits; twice the last remainder against n decides the
   rounding. *)
true_divide(a, n) ==
    IF a = 0 THEN Zero
    ELSE LET k == LeadShift(a, n)
             r0 == a * 2^k - n
             high == (r0 * 2^12) \div n
             r1 == (r0 * 2^12) % n
             middle == (r1 * Limb) \div n
             r2 == (r1 * Limb) % n
             low == (r2 * Limb) \div n
             r3 == (r2 * Limb) % n
         IN  Round(<<2^12 + high, middle, low>>, 0 - k - 52, 2 * r3, n)

(* float * 100 of Python: the double nearest to the exact product, which
   has 59 or 60 bits *)
times_100(q) ==
    IF q = Zero THEN Zero
    ELSE LET p == Scale(q.m, 100)
             s == IF p[1] < 2^19 THEN 6 ELSE 7
         IN  Round(ShiftRight(p, s), q.e + s, Dropped(p, s), 2^(s - 1))

(* the quotient stored as it is, not as a percentage *)
rate_unscaled(a, n) == true_divide(a, n)

(* (a / n) * 100 *)
rate(a, n) == times_100(true_divide(a, n))

(* rate(a, n) for the counts a store of the model can hold, computed once *)
RateTableSize == CHECK_LIMIT + MaxOver
Rates == [n \in 1..RateTableSize |-> [a \in 0..n |-> rate(a, n)]]

----------------------------------------------------------------------------
(* models.py: Statistic.calculate_rates, on a row whose counts are set *)

calculate_rates(row) ==
    IF row.emails_sent > 0
    THEN [row EXCEPT !.success_rate = Rates[row.emails_sent][row.emails_inbox],
                     !.spam_rate = Rates[row.emails_sent][row.emails_spam]]
    ELSE [row EXCEPT !.success_rate = Zero, !.spam_rate = Zero]

(* Statistic(date=today): the column defaults *)
NewStatistic(d) ==
    [date |-> d, emails_sent |-> 0, emails_inbox |-> 0, emails_spam |-> 0,
     emails_failed |-> 0, bounce_count |-> 0,
     success_rate |-> Zero, spam_rate |-> Zero]

(* Statistic.query.filter_by(date=d).first(), or the row just added *)
TodayStatistic(stats, d) ==
    LET found == {r \in stats : r.date = d}
    IN  IF found = {} THEN NewStatistic(d) ELSE CHOOSE r \in found : TRUE

(* every email of the store, whatever its day *)
today_emails_all_time(ems, t) == 1..Len(ems)

(* Email.query.filter(Email.sent_at >= today_start).all(), as row positions *)
today_emails(ems, t) == {i \in 1..Len(ems) : ems[i].sent_at >= DateOf(t) * DayLen}

(* the refresh adding the counts to the stored ones *)
update_daily_statistics_accumulating(ems, stats, t) ==
    LET row == TodayStatistic(stats, DateOf(t))
        sent == today_emails(ems, t)
        counted == [row EXCEPT
            !.emails_sent = @ + Cardinality(sent),
            !.emails_inbox = @ + Cardinality({i \in sent : ems[i].delivery_status = "inbox"}),
            !.emails_spam = @ + Cardinality({i \in sent : ems[i].delivery_status = "spam"}),
            !.emails_failed = @ + Cardinality({i \in sent : ems[i].status = "failed"}),
            !.bounce_count = @ + Cardinality({i \in sent : ems[i].status = "bounced"})]
    IN  (stats \ {row}) \cup {calculate_rates(counted)}

(* WarmupScheduler.update_daily_statistics: the statistics table after the
   call, given the committed emails ems, the table stats and the clock t *)
update_daily_statistics(ems, stats, t) ==
    LET row == TodayStatistic(stats, DateOf(t))
        sent == today_emails(ems, t)
        counted == [row EXCEPT
            !.emails_sent = Cardinality(sent),
            !.emails_inbox = Cardinality({i \in sent : ems[i].delivery_status = "inbox"}),
            !.emails_spam = Cardinality({i \in sent : ems[i].delivery_status = "spam"}),
            !.emails_failed = Cardinality({i \in sent : ems[i].status = "failed"}),
            !.bounce_count = Cardinality({i \in sent : ems[i].status = "bounced"})]
    IN  (stats \ {row}) \cup {calculate_rates(counted)}

----------------------------------------------------------------------------
(* warmup_scheduler.py: the schedule queries, on the committed store *)

(* WarmupExecution.query.filter_by(date=d).first() *)
ExecutionsOn(d) == {k \in 1..Len(executions) : executions[k].date = d}
HasExecution(d) == ExecutionsOn(d) # {}
FirstExecutionOn(d) ==
    executions[CHOOSE k \in ExecutionsOn(d) : \A j \in ExecutionsOn(d) : k <= j]

(* the warmup day as the number of batches run, plus one *)
get_current_warmup_day_by_count == Len(executions) + 1

get_current_warmup_day ==
    IF executions = << >> THEN 1
    ELSE (today - executions[1].date) + 1

(* the schedule of today falling to the next enabled day when the current
   day has no enabled row *)
get_today_schedule_next_enabled ==
    LET rows == {s \in schedule : s.day >= get_current_warmup_day /\ s.enabled}
    IN  IF rows = {} THEN None
        ELSE Some(CHOOSE s \in rows : \A q \in rows : s.day <= q.day)

(* None, or Some(row): the enabled row of the current warmup day *)
get_today_schedule ==
    LET rows == {s \in schedule : s.day = get_current_warmup_day /\ s.enabled}
    IN  IF rows = {} THEN None ELSE Some(CHOOSE s \in rows : TRUE)

(* should_send_today refusing once an execution of today exists *)
should_send_today_once_begun ==
    IF HasExecution(today) THEN FALSE
    ELSE IF get_today_schedule = None THEN FALSE
    ELSE TRUE

(* should_send_today without its look at today's execution *)
should_send_today_unguarded == get_today_schedule # None

should_send_today ==
    IF HasExecution(today) /\ IsSet(FirstExecutionOn(today).completed_at)
    THEN FALSE
    ELSE IF get_today_schedule = None THEN FALSE
    ELSE TRUE

----------------------------------------------------------------------------
(* email_sender.py: PostalEmailSender.send_email.  What the provider does
   with one request is answer; id is the message id it would assign. *)

ProviderAnswers(id) ==
    { [kind |-> "response", status_code |-> 200, status |-> "success", message_id |-> Some(id)],
      [kind |-> "response", status_code |-> 200, status |-> "error", message_id |-> None],
      [kind |-> "response", status_code |-> 500, status |-> "success", message_id |-> Some(id)],
      [kind |-> "undecodable", status_code |-> 200, status |-> "", message_id |-> None],
      [kind |-> "timeout", status_code |-> 0, status |-> "", message_id |-> None],
      [kind |-> "transport", status_code |-> 0, status |-> "", message_id |-> None] }

(* Answers whose body is JSON of another shape than the provider's
   documented {"status": ..., "data": {...}}: the body an object without
   "data" ("no_data"), with "data" null or not an object ("bad_data"), or
   not an object at all ("not_object") *)
OddAnswers(id) ==
    [kind : {"no_data", "bad_data", "not_object"}, status_code : {200, 500},
     status : {"success", "error"}, message_id : {None}]

(* send_email going by the HTTP status alone *)
send_email_by_status_code(answer) ==
    IF answer.kind = "response" /\ answer.status_code = 200
    THEN [success |-> TRUE, message_id |-> answer.message_id, status |-> "sent",
          error |-> None]
    ELSE [success |-> FALSE, message_id |-> None, status |-> "failed",
          error |-> Some("Unknown error")]

(* lines 85-95 and 97-122: every failure returns this shape, with error the
   provider's message, 'Unknown error', 'Request timed out' or str(e) *)
SendFailed(error) ==
    [success |-> FALSE, message_id |-> None, status |-> "failed", error |-> Some(error)]

(* One requests.post (line 65), then response.json() (line 73), then the
   test of line 75.  response_data.get raises AttributeError on a body that
   is no object, and response_data.get('data', {}).get raises it on a
   "data" that is null or no object (lines 76 and 86); except Exception
   (115-122) turns it into a failure. *)
send_email(answer) ==
    CASE answer.kind = "response" ->
            IF answer.status_code = 200 /\ answer.status = "success"
            THEN [success |-> TRUE, message_id |-> answer.message_id, status |-> "sent",
                  error |-> None]
            ELSE SendFailed("provider message")
      [] answer.kind = "no_data" ->
            IF answer.status_code = 200 /\ answer.status = "success"
            THEN [success |-> TRUE, message_id |-> None, status |-> "sent",
                  error |-> None]
            ELSE SendFailed("Unknown error")
      [] answer.kind \in {"bad_data", "not_object"} -> SendFailed("AttributeError")
      [] answer.kind = "timeout" -> SendFailed("Request timed out")
      [] OTHER -> SendFailed("str(e)")

(* the row with its check due at the time of the send *)
NewEmail_due_at_once(sender, recipient, subject, send_result, t) ==
    [sender |-> sender, recipient |-> recipient, subject |-> subject,
     postal_message_id |-> send_result.message_id,
     status |-> IF send_result.success THEN "sent" ELSE "failed",
     delivery_status |-> "pending",
     sent_at |-> t, check_scheduled_at |-> t,
     checked_at |-> None, is_read |-> FALSE, moved_to_folder |-> None]

(* The Email row both send loops build from a send result *)
NewEmail(sender, recipient, subject, send_result, t) ==
    [sender |-> sender, recipient |-> recipient, subject |-> subject,
     postal_message_id |-> send_result.message_id,
     status |-> IF send_result.success THEN "sent" ELSE "failed",
     delivery_status |-> "pending",
     sent_at |-> t, check_scheduled_at |-> t + CHECK_DELAY,
     checked_at |-> None, is_read |-> FALSE, moved_to_folder |-> None]

----------------------------------------------------------------------------
(* email_checker.py: IMAPEmailChecker.  A mailbox is what the server holds
   when the check runs: whether connecting and logging in work, the folders
   that exist with the messages in each, and whether logout works. *)

(* the spam folders in the order of their names *)
SPAM_FOLDERS_by_name == <<"Junk", "SPAM", "Spam", "[Gmail]/Junk", "[Gmail]/Spam">>

SPAM_FOLDERS == <<"[Gmail]/Spam", "Spam", "Junk", "SPAM", "[Gmail]/Junk">>

search_in_folder(mb, folder_name, message_id, subject) ==
    IF folder_name \notin DOMAIN mb.folders
    THEN FALSE
    ELSE LET by_id == IsSet(message_id)
             by_subject == subject # ""
             Matches(m) ==
                 IF ~by_id /\ ~by_subject THEN m.today
                 ELSE \/ by_id /\ m.message_id = message_id
                      \/ by_subject /\ m.subject = subject
         IN  \E m \in mb.folders[folder_name] : Matches(m)

RECURSIVE FirstSpamFolder(_, _, _, _)
FirstSpamFolder(mb, folders, message_id, subject) ==
    IF folders = << >> THEN None
    ELSE IF search_in_folder(mb, Head(folders), message_id, subject)
         THEN Some(Head(folders))
         ELSE FirstSpamFolder(mb, Tail(folders), message_id, subject)

(* check_email reporting an error as a message that was not found *)
check_email_swallowing(mb, message_id, subject) ==
    IF mb.login # "ok" \/ ~mb.logout_ok
    THEN [found |-> FALSE, delivery_status |-> "unknown", folder |-> None]
    ELSE IF search_in_folder(mb, "INBOX", message_id, subject)
         THEN [found |-> TRUE, delivery_status |-> "inbox", folder |-> Some("INBOX")]
         ELSE LET hit == FirstSpamFolder(mb, SPAM_FOLDERS, message_id, subject)
              IN  IF IsSet(hit)
                  THEN [found |-> TRUE, delivery_status |-> "spam", folder |-> hit]
                  ELSE [found |-> FALSE, delivery_status |-> "unknown", folder |-> None]

(* check_email leaving the status open when the message is in no folder *)
check_email_unsettled(mb, message_id, subject) ==
    IF mb.login # "ok" \/ ~mb.logout_ok
    THEN [found |-> FALSE, delivery_status |-> "failed", folder |-> None]
    ELSE IF search_in_folder(mb, "INBOX", message_id, subject)
         THEN [found |-> TRUE, delivery_status |-> "inbox", folder |-> Some("INBOX")]
         ELSE LET hit == FirstSpamFolder(mb, SPAM_FOLDERS, message_id, subject)
              IN  IF IsSet(hit)
                  THEN [found |-> TRUE, delivery_status |-> "spam", folder |-> hit]
                  ELSE [found |-> FALSE, delivery_status |-> "pending", folder |-> None]

CheckFailed == [found |-> FALSE, delivery_status |-> "failed", folder |-> None]

check_email(mb, message_id, subject) ==
    IF mb.login # "ok" THEN CheckFailed
    ELSE IF search_in_folder(mb, "INBOX", message_id, subject)
         THEN IF mb.logout_ok
              THEN [found |-> TRUE, delivery_status |-> "inbox", folder |-> Some("INBOX")]
              ELSE CheckFailed
         ELSE LET hit == FirstSpamFolder(mb, SPAM_FOLDERS, message_id, subject)
              IN  IF ~mb.logout_ok THEN CheckFailed
                  ELSE IF IsSet(hit)
                       THEN [found |-> TRUE, delivery_status |-> "spam", folder |-> hit]
                       ELSE [found |-> FALSE, delivery_status |-> "unknown", folder |-> None]

----------------------------------------------------------------------------
(* The state after construction: an empty store but for the schedule.  The
   schedule is the seeded ramp as the user has edited it: a row for day 1
   with any target and flag, and a row for day 2 or none. *)

ScheduleRow(d, n, en) == [id |-> d, day |-> d, target_emails |-> n, enabled |-> en]

Schedules ==
    {{ScheduleRow(1, n, en)} \cup rest :
        n \in 0..MaxTarget, en \in BOOLEAN,
        rest \in {{}, {ScheduleRow(2, 1, TRUE)}}}

(* database.py, seed_default_data: the targets of days 1 to 15 *)
default_schedule == <<5, 10, 15, 20, 25, 30, 35, 40, 45, 50, 60, 70, 80, 90, 100>>

DefaultRows == {ScheduleRow(d, default_schedule[d], TRUE) : d \in 1..Len(default_schedule)}

(* the seeding adding whatever day of the ramp the table lacks *)
seed_schedule_missing_days(rows) ==
    rows \cup {r \in DefaultRows : \A q \in rows : q.day # r.day /\ q.id # r.id}

(* lines 37-61: the ramp, when the table has no row *)
seed_schedule(rows) == IF rows = {} THEN DefaultRows ELSE rows

(* lines 65-98: one row per configured sender and recipient, when the table
   has no row; the password of a recipient is stored encrypted *)
seed_addresses(rows, cfg) ==
    IF rows # {} THEN rows
    ELSE {[email |-> a, type |-> "sender", verified |-> FALSE, imap_password |-> None] :
             a \in cfg.SENDER_ADDRESSES}
         \cup {[email |-> a, type |-> "recipient", verified |-> FALSE,
                imap_password |-> IF a \in cfg.RECIPIENT_IMAP_PASSWORDS
                                  THEN Some(<<"encrypted", a>>) ELSE None] :
                  a \in cfg.RECIPIENT_ADDRESSES}

(* a pause after every iteration *)
pause_after_every(i, n) == TRUE

(* lines 187 and 390: time.sleep follows iteration i of range(n) unless it
   is the last *)
pause_after(i, n) == i < n - 1

IdleSession ==
    [pc |-> "idle", schedule_id |-> 0, target_emails |-> 0, execution |-> 0,
     expired |-> FALSE, sent_count |-> 0, i |-> 0, pending |-> << >>, pauses |-> 0]

(* check_pending_emails before the call: no row loaded.  In the loop:
   selected, the ids the query returned; rows, the objects of the session;
   todo, the ids the loop has yet to reach *)
IdleSweep == [pc |-> "idle", selected |-> {}, rows |-> << >>, todo |-> {}]

NoReturn == [success |-> FALSE, error |-> "", sent_count |-> 0, target_count |-> 0]
Failure(reason) == [NoReturn EXCEPT !.error = reason]

NoCalls ==
    [check_email |-> 0, mark_as_read |-> 0, move_to_folder |-> 0, imap_errors |-> 0,
     marked |-> 0, moved |-> 0]

InitWith(configs, schedules) ==
    /\ now = 0
    /\ config \in configs
    /\ email_addresses = seed_addresses({}, config)
    /\ schedule \in schedules
    /\ executions = << >>
    /\ emails = << >>
    /\ statistics = {}
    /\ session = [p \in Invokers |-> IdleSession]
    /\ ret = [p \in Invokers |-> NoReturn]
    /\ postalSeq = 0
    /\ senderCalls = [d \in Dates |-> 0]
    /\ targetRead = [d \in Dates |-> 0]
    /\ imapCalls = << >>
    /\ reply = None
    /\ sweeps = [p \in Invokers |-> IdleSweep]

Init == InitWith(Configs, Schedules)

(* Requests to the provider the running daily batches have yet to make *)
Outstanding ==
    LET r(p) == IF session[p].pc = "idle" THEN 0
                ELSE session[p].target_emails - session[p].i
    IN  r("cron") + r("http")

(* The model's room for further requests to the provider, out of max *)
Room(max) == max - (postalSeq + Outstanding)

(* A daily batch that begins now stays within the room *)
BeginFits(max) ==
    IF get_today_schedule = None THEN TRUE
    ELSE Val(get_today_schedule).target_emails <= Room(max)

----------------------------------------------------------------------------
(* The clock *)

Tick(max) ==
    /\ now < max
    /\ now' = now + 1
    /\ UNCHANGED <<config, sweeps, email_addresses, reply, schedule, executions, emails, statistics, session,
                   ret, postalSeq, senderCalls, targetRead, imapCalls>>

----------------------------------------------------------------------------
(* WarmupScheduler.send_daily_batch, in the steps another invocation, the
   clock or a termination of the process can fall between *)

NoteTarget(d, n) == [targetRead EXCEPT ![d] = IF n > @ THEN n ELSE @]

(* the batch going on to today's execution without the three refusals *)
send_daily_batch_begin_unchecked(p) ==
    /\ session[p].pc = "idle"
    /\ session' = [session EXCEPT ![p] =
           [IdleSession EXCEPT
              !.pc = IF HasExecution(today) THEN "loop" ELSE "insert",
              !.schedule_id = IF IsSet(get_today_schedule)
                              THEN Val(get_today_schedule).id ELSE 0,
              !.execution = IF HasExecution(today)
                            THEN FirstExecutionOn(today).id ELSE 0]]
    /\ ret' = [ret EXCEPT ![p] = NoReturn]
    /\ UNCHANGED <<now, config, sweeps, email_addresses, reply, schedule, executions, emails, statistics,
                   postalSeq, senderCalls, imapCalls, targetRead>>

(* lines 108-133: the schedule, the already-sent check, the address pools
   and the query for today's execution *)
send_daily_batch_begin(p) ==
    /\ session[p].pc = "idle"
    /\ LET sched == get_today_schedule IN
       IF sched = None
       THEN /\ ret' = [ret EXCEPT ![p] = Failure("No schedule for today")]
            /\ UNCHANGED <<session, targetRead>>
       ELSE IF ~should_send_today
       THEN /\ ret' = [ret EXCEPT ![p] = Failure("Already executed today")]
            /\ UNCHANGED <<session, targetRead>>
       ELSE IF config.SENDER_ADDRESSES = {} \/ config.RECIPIENT_ADDRESSES = {}
       THEN /\ ret' = [ret EXCEPT ![p] = Failure("No addresses configured")]
            /\ UNCHANGED <<session, targetRead>>
       ELSE /\ session' = [session EXCEPT ![p] =
                   [IdleSession EXCEPT
                      !.pc = IF HasExecution(today) THEN "loop" ELSE "insert",
                      !.schedule_id = Val(sched).id,
                      !.target_emails = Val(sched).target_emails,
                      !.execution = IF HasExecution(today)
                                    THEN FirstExecutionOn(today).id ELSE 0,
                      !.sent_count = IF HasExecution(today)
                                     THEN FirstExecutionOn(today).sent_count ELSE 0]]
            /\ targetRead' = IF HasExecution(today)
                              THEN NoteTarget(today, Val(sched).target_emails)
                              ELSE targetRead
            /\ ret' = [ret EXCEPT ![p] = NoReturn]
    /\ UNCHANGED <<now, config, sweeps, email_addresses, reply, schedule, executions, emails, statistics,
                   postalSeq, senderCalls, imapCalls>>

(* the primary key SQLite gives a new row: one more than the largest in
   the table *)
NextExecutionId ==
    IF executions = << >> THEN 1
    ELSE 1 + (CHOOSE m \in {executions[k].id : k \in 1..Len(executions)} :
                 \A k \in 1..Len(executions) : executions[k].id <= m)

(* lines 135-142: no execution was found: insert one and commit *)
send_daily_batch_insert(p) ==
    /\ session[p].pc = "insert"
    /\ LET id == NextExecutionId IN
       /\ executions' = Append(executions,
              [id |-> id, schedule_day_id |-> session[p].schedule_id,
               date |-> today, sent_count |-> 0, completed_at |-> None])
       /\ session' = [session EXCEPT ![p].pc = "loop",
                                     ![p].execution = id,
                                     ![p].expired = TRUE]
    /\ targetRead' = NoteTarget(today, session[p].target_emails)
    /\ UNCHANGED <<now, config, sweeps, email_addresses, reply, schedule, emails, statistics, ret, postalSeq, senderCalls, imapCalls>>

(* The execution row a session holds *)
ExecutionRow(id) == executions[CHOOSE k \in 1..Len(executions) : executions[k].id = id]

(* execution.sent_count as the session reads it: a row the session has
   committed is expired and is loaded again from the store on first use *)
SessionSentCount(p) ==
    IF session[p].expired THEN ExecutionRow(session[p].execution).sent_count
    ELSE session[p].sent_count

(* lines 150-191: one iteration of the loop.  The Email row is added to the
   session and sent_count is incremented in the session; nothing is
   committed here. *)
send_daily_batch_send(p, sender, recipient, subject, answer) ==
    /\ session[p].pc = "loop"
    /\ session[p].i < session[p].target_emails
    /\ LET send_result == send_email(answer)
           email == NewEmail(sender, recipient, subject, send_result, now)
           d == ExecutionRow(session[p].execution).date
       IN  /\ session' = [session EXCEPT
                  ![p].pending = Append(@, email),
                  ![p].sent_count = SessionSentCount(p) + 1,
                  ![p].expired = FALSE,
                  ![p].pauses = IF pause_after(session[p].i, session[p].target_emails)
                                THEN @ + 1 ELSE @,
                  ![p].i = @ + 1]
           /\ senderCalls' = [senderCalls EXCEPT ![d] = @ + 1]
    /\ postalSeq' = postalSeq + 1
    /\ UNCHANGED <<now, config, sweeps, email_addresses, reply, schedule, executions, emails, statistics, ret,
                   targetRead, imapCalls>>

(* What db.session.commit() writes of a session's execution row: the
   attributes the session has set *)
CommitExecution(p, completed_at) ==
    [k \in 1..Len(executions) |->
        IF executions[k].id = session[p].execution
        THEN [executions[k] EXCEPT
                 !.sent_count = IF session[p].i > 0 THEN session[p].sent_count ELSE @,
                 !.completed_at = completed_at]
        ELSE executions[k]]

(* lines 193-207: stamp completed_at, commit the session, recompute the
   statistics and return *)
send_daily_batch_finish(p) ==
    /\ session[p].pc = "loop"
    /\ session[p].i >= session[p].target_emails
    /\ executions' = CommitExecution(p, Some(now))
    /\ emails' = emails \o session[p].pending
    /\ imapCalls' = imapCalls \o [k \in 1..Len(session[p].pending) |-> NoCalls]
    /\ statistics' = update_daily_statistics(emails', statistics, now)
    /\ ret' = [ret EXCEPT ![p] =
           [success |-> TRUE, error |-> "",
            sent_count |-> SessionSentCount(p),
            target_count |-> session[p].target_emails]]
    /\ session' = [session EXCEPT ![p] = IdleSession]
    /\ UNCHANGED <<now, config, sweeps, email_addresses, reply, schedule, postalSeq,
                   senderCalls, targetRead>>

(* The process is terminated and started again: every session is lost, the
   committed store stays *)
Crash ==
    /\ \E p \in Invokers : session[p].pc # "idle"
    /\ session' = [p \in Invokers |-> IdleSession]
    /\ ret' = [p \in Invokers |-> NoReturn]
    /\ UNCHANGED <<now, config, sweeps, email_addresses, reply, schedule, executions, emails, statistics,
                   postalSeq, senderCalls, targetRead, imapCalls>>

----------------------------------------------------------------------------
(* WarmupScheduler.trigger_manual_send with the configured pools.  choice[k]
   is the recipient drawn for message k and the provider's answer to it. *)

Subjects == {"Kurze Frage"}

AnswerWithId(a, id) == IF IsSet(a.message_id) THEN [a EXCEPT !.message_id = Some(id)] ELSE a

ManualRows(count, choice) ==
    [k \in 1..count |->
        NewEmail(choice[k].sender, choice[k].recipient, choice[k].subject,
                 send_email(AnswerWithId(choice[k].answer, postalSeq + k)), now)]

(* the manual send stopping at the day's target like the daily batch *)
trigger_manual_send_gated(count, choice) ==
    /\ IF config.SENDER_ADDRESSES = {} \/ config.RECIPIENT_ADDRESSES = {}
          \/ ~should_send_today
       THEN UNCHANGED <<emails, imapCalls, postalSeq, statistics>>
       ELSE /\ emails' = emails \o ManualRows(count, choice)
            /\ imapCalls' = imapCalls \o [k \in 1..count |-> NoCalls]
            /\ postalSeq' = postalSeq + count
            /\ statistics' = update_daily_statistics(emails', statistics, now)
    /\ UNCHANGED <<now, config, sweeps, email_addresses, schedule, executions, session, ret, senderCalls, targetRead>>

(* the state change of the call: with an empty pool (lines 351-352) it
   returns at once; count <= 0 runs the loop zero times.  senders and
   recipients are left out of the request, so the configured pools are
   used. *)
trigger_manual_send(count, choice) ==
    /\ IF config.SENDER_ADDRESSES = {} \/ config.RECIPIENT_ADDRESSES = {}
       THEN UNCHANGED <<emails, imapCalls, postalSeq, statistics>>
       ELSE /\ emails' = emails \o ManualRows(count, choice)
            /\ imapCalls' = imapCalls \o [k \in 1..count |-> NoCalls]
            /\ postalSeq' = postalSeq + count
            /\ statistics' = update_daily_statistics(emails', statistics, now)
    /\ UNCHANGED <<now, config, sweeps, email_addresses, schedule, executions, session, ret, senderCalls, targetRead>>

(* what the call returns (lines 352 and 399-407) *)
trigger_manual_send_return(count, choice) ==
    IF config.SENDER_ADDRESSES = {} \/ config.RECIPIENT_ADDRESSES = {}
    THEN [success |-> FALSE, error |-> "No addresses configured"]
    ELSE [success |-> TRUE,
          sent_count |-> Cardinality({k \in 1..count : send_email(choice[k].answer).success}),
          total_count |-> count]

(* the calls of time.sleep in the loop of lines 359-394 *)
manual_pauses(count) ==
    IF config.SENDER_ADDRESSES = {} \/ config.RECIPIENT_ADDRESSES = {} THEN 0
    ELSE Cardinality({i \in 0..(count - 1) : pause_after(i, count)})

ManualChoices(count, answers) ==
    [1..count -> [sender : config.SENDER_ADDRESSES,
                  recipient : config.RECIPIENT_ADDRESSES,
                  subject : Subjects,
                  answer : answers]]

----------------------------------------------------------------------------
(* WarmupScheduler.check_pending_emails *)

(* The mailbox a check of email e meets, by situation *)
Message(e) == [message_id |-> e.postal_message_id, subject |-> e.subject, today |-> TRUE]

Mailbox(e, situation) ==
    [login |-> CASE situation = "login_error" -> "LoginError"
                 [] situation = "connect_error" -> "error"
                 [] OTHER -> "ok",
     logout_ok |-> situation # "logout_error",
     folders |->
        CASE situation = "junk" ->
                 [f \in {"INBOX", "Junk", "SPAM"} |-> IF f = "Junk" THEN {Message(e)} ELSE {}]
          [] situation = "absent" ->
                 [f \in {"INBOX", "Spam"} |-> {}]
          [] OTHER ->
                 [f \in {"INBOX", "Spam"} |-> IF f = "INBOX" THEN {Message(e)} ELSE {}]]

Situations == {"inbox", "junk", "absent", "login_error", "connect_error", "logout_error"}

(* The situations in which the check raises inside the checker *)
ErrorSituations == {"login_error", "connect_error", "logout_error"}

(* What one iteration of the sweep meets: the mailbox, the three draws of
   random.random() (engage: < 0.7, read: < 0.8, move: < 0.3), the folder
   random.choice() picks and whether the move succeeds.  The draws matter
   for a message found in INBOX only; there they cover every path through
   lines 258-283 and every folder. *)
NoDraws(situation) ==
    [situation |-> situation, engage |-> FALSE, read |-> FALSE, move |-> FALSE,
     folder |-> "Archive", move_ok |-> FALSE, read_ok |-> FALSE]

(* read_ok and move_ok are what mark_as_read and move_to_folder return:
   False when no message matches or the connection fails.  The draws of a
   message found in a spam folder are never looked at. *)
CheckEnvs ==
    {NoDraws(s) : s \in Situations}
    \cup {[NoDraws("junk") EXCEPT !.engage = TRUE, !.read = TRUE, !.read_ok = TRUE]}
    \cup {[NoDraws("inbox") EXCEPT !.engage = TRUE, !.read = TRUE, !.read_ok = ok] :
             ok \in BOOLEAN}
    \cup {[NoDraws("inbox") EXCEPT !.engage = TRUE, !.read = TRUE, !.read_ok = TRUE,
                                   !.move = TRUE]}
    \cup {[NoDraws("inbox") EXCEPT !.engage = TRUE, !.move = TRUE,
                                   !.folder = f, !.move_ok = TRUE] :
             f \in EngagementFolders}

(* lines 221-225: the rows the query selects.  The query has no ORDER BY;
   the rows come in id order. *)
(* The filter on the due time alone *)
(* the query without its look at check_scheduled_at *)
IsEligible_at_once(e, t) ==
    /\ e.delivery_status = "pending"
    /\ e.checked_at = None

IsEligible_due_only(e, t) == e.check_scheduled_at <= t

IsEligible(e, t) ==
    /\ e.delivery_status = "pending"
    /\ e.check_scheduled_at <= t
    /\ e.checked_at = None

Eligible(ems, t) == {k \in 1..Len(ems) : IsEligible(ems[k], t)}

(* The query without its limit *)
pending_emails_unlimited(ems, t) == Eligible(ems, t)

pending_emails(ems, t) ==
    {k \in Eligible(ems, t) :
        Cardinality({j \in Eligible(ems, t) : j < k}) < CHECK_LIMIT}

(* the iteration leaving a row whose check failed for a later sweep *)
check_one_retrying(e, env, t) ==
    IF e.recipient \notin config.RECIPIENT_IMAP_PASSWORDS
    THEN [row |-> [e EXCEPT !.delivery_status = "unknown", !.checked_at = Some(t)],
          calls |-> NoCalls]
    ELSE LET result == check_email(Mailbox(e, env.situation), e.postal_message_id, e.subject)
         IN  [row |-> IF result.delivery_status = "failed" THEN e
                      ELSE [e EXCEPT !.delivery_status = result.delivery_status,
                                     !.checked_at = Some(t)],
              calls |-> [check_email |-> 1, mark_as_read |-> 0, move_to_folder |-> 0,
                         marked |-> 0, moved |-> 0,
                         imap_errors |-> IF env.situation \in ErrorSituations
                                         THEN 1 ELSE 0]]

(* The iteration without the look at the credential: the checker is called
   for every row *)
check_one_unguarded(e, env, t) ==
    LET result == check_email(Mailbox(e, env.situation), e.postal_message_id, e.subject)
    IN  [row |-> [e EXCEPT !.delivery_status = result.delivery_status,
                           !.checked_at = Some(t)],
         calls |-> [check_email |-> 1, mark_as_read |-> 0, move_to_folder |-> 0,
                    marked |-> 0, moved |-> 0,
                    imap_errors |-> IF env.situation \in ErrorSituations
                                    THEN 1 ELSE 0]]

(* the iteration engaging with every message the check has found *)
check_one_engaging_found(e, env, t) ==
    IF e.recipient \notin config.RECIPIENT_IMAP_PASSWORDS
    THEN [row |-> [e EXCEPT !.delivery_status = "unknown", !.checked_at = Some(t)],
          calls |-> NoCalls]
    ELSE LET result == check_email(Mailbox(e, env.situation), e.postal_message_id, e.subject)
             engaged == result.found /\ env.engage
             reads == engaged /\ env.read
             moves == engaged /\ env.move
         IN  [row |-> [e EXCEPT
                         !.delivery_status = result.delivery_status,
                         !.checked_at = Some(t),
                         !.is_read = IF reads THEN TRUE ELSE @,
                         !.moved_to_folder =
                             IF moves /\ env.move_ok THEN Some(env.folder) ELSE @],
              calls |-> [check_email |-> 1,
                         mark_as_read |-> IF reads THEN 1 ELSE 0,
                         move_to_folder |-> IF moves THEN 1 ELSE 0,
                         marked |-> IF reads /\ env.read_ok THEN 1 ELSE 0,
                         moved |-> IF moves /\ env.move_ok THEN 1 ELSE 0,
                         imap_errors |-> IF env.situation \in ErrorSituations
                                         THEN 1 ELSE 0]]

(* lines 236-290: one iteration: the row afterwards and the calls made *)
check_one(e, env, t) ==
    IF e.recipient \notin config.RECIPIENT_IMAP_PASSWORDS
    THEN [row |-> [e EXCEPT !.delivery_status = "unknown", !.checked_at = Some(t)],
          calls |-> NoCalls]
    ELSE LET result == check_email(Mailbox(e, env.situation), e.postal_message_id, e.subject)
             engaged == result.delivery_status = "inbox" /\ env.engage
             reads == engaged /\ env.read
             moves == engaged /\ env.move
         IN  [row |-> [e EXCEPT
                         !.delivery_status = result.delivery_status,
                         !.checked_at = Some(t),
                         !.is_read = IF reads THEN TRUE ELSE @,
                         !.moved_to_folder =
                             IF moves /\ env.move_ok THEN Some(env.folder) ELSE @],
              calls |-> [check_email |-> 1,
                         mark_as_read |-> IF reads THEN 1 ELSE 0,
                         move_to_folder |-> IF moves THEN 1 ELSE 0,
                         marked |-> IF reads /\ env.read_ok THEN 1 ELSE 0,
                         moved |-> IF moves /\ env.move_ok THEN 1 ELSE 0,
                         imap_errors |-> IF env.situation \in ErrorSituations
                                         THEN 1 ELSE 0]]

AddCalls(a, b) ==
    [check_email |-> a.check_email + b.check_email,
     mark_as_read |-> a.mark_as_read + b.mark_as_read,
     move_to_folder |-> a.move_to_folder + b.move_to_folder,
     marked |-> a.marked + b.marked,
     moved |-> a.moved + b.moved,
     imap_errors |-> a.imap_errors + b.imap_errors]

(* The whole sweep; env[k] is what the iteration for row k meets *)
check_pending_emails(env) ==
    \E selected \in {pending_emails(emails, now)} :
    /\ selected # {}
    /\ emails' = [k \in 1..Len(emails) |->
                    IF k \in selected THEN check_one(emails[k], env[k], now).row
                    ELSE emails[k]]
    /\ imapCalls' = [k \in 1..Len(emails) |->
                    IF k \in selected
                    THEN AddCalls(imapCalls[k], check_one(emails[k], env[k], now).calls)
                    ELSE imapCalls[k]]
    /\ statistics' = update_daily_statistics(emails', statistics, now)
    /\ UNCHANGED <<now, config, sweeps, email_addresses, reply, schedule, executions, session, ret, postalSeq, senderCalls, targetRead>>

(* check_pending_emails in the steps another invocation can fall between:
   the query (lines 219-225), one iteration of the loop with its calls to
   the mailbox (236-290), the commit and the refresh (292-296).  Each
   invocation works on the objects of its own session; nothing is written
   to the store before the commit. *)
check_pending_select(p) ==
    /\ sweeps[p].pc = "idle"
    /\ \E selected \in {pending_emails(emails, now)} :
          /\ selected # {}
          /\ sweeps' = [sweeps EXCEPT ![p] =
                 [pc |-> "loop", selected |-> selected,
                  rows |-> [k \in selected |-> emails[k]], todo |-> selected]]
    /\ UNCHANGED <<now, config, email_addresses, schedule, executions, emails, statistics,
                   session, ret, postalSeq, senderCalls, targetRead, imapCalls, reply>>

check_pending_check(p, env) ==
    /\ sweeps[p].pc = "loop"
    /\ sweeps[p].todo # {}
    /\ \E k \in {CHOOSE m \in sweeps[p].todo : \A q \in sweeps[p].todo : m <= q} :
       \E one \in {check_one(sweeps[p].rows[k], env, now)} :
          /\ sweeps' = [sweeps EXCEPT ![p].rows[k] = one.row, ![p].todo = @ \ {k}]
          /\ imapCalls' = [imapCalls EXCEPT ![k] = AddCalls(@, one.calls)]
    /\ UNCHANGED <<now, config, email_addresses, schedule, executions, emails, statistics,
                   session, ret, postalSeq, senderCalls, targetRead, reply>>

(* the UPDATE the commit issues for one object: the columns the loop has
   assigned, which for a row loaded unread and unmoved are delivery_status
   and checked_at, is_read when set, moved_to_folder when set *)
flush(stored, object) ==
    [stored EXCEPT
        !.delivery_status = object.delivery_status,
        !.checked_at = object.checked_at,
        !.is_read = IF object.is_read THEN TRUE ELSE @,
        !.moved_to_folder = IF IsSet(object.moved_to_folder)
                            THEN object.moved_to_folder ELSE @]

check_pending_commit(p) ==
    /\ sweeps[p].pc = "loop"
    /\ sweeps[p].todo = {}
    /\ emails' = [k \in 1..Len(emails) |->
                    IF k \in sweeps[p].selected
                    THEN flush(emails[k], sweeps[p].rows[k]) ELSE emails[k]]
    /\ statistics' = update_daily_statistics(emails', statistics, now)
    /\ sweeps' = [sweeps EXCEPT ![p] = IdleSweep]
    /\ UNCHANGED <<now, config, email_addresses, schedule, executions, session, ret,
                   postalSeq, senderCalls, targetRead, imapCalls, reply>>

----------------------------------------------------------------------------

(* The answers of a provider that accepts every message *)
Accepting(id) == {a \in ProviderAnswers(id) : send_email(a).success}

(* The answers of the provider: any, or those of one that is up *)
AnswersOf(id, up) == IF up THEN Accepting(id) ELSE ProviderAnswers(id)

(* The steps of one invoker's send_daily_batch *)
DailyBatch(p, max, up) ==
    \/ BeginFits(max) /\ send_daily_batch_begin(p)
    \/ send_daily_batch_insert(p)
    \/ \E s \in config.SENDER_ADDRESSES, r \in config.RECIPIENT_ADDRESSES,
          subj \in Subjects, a \in AnswersOf(postalSeq + 1, up) :
          send_daily_batch_send(p, s, r, subj, a)
    \/ send_daily_batch_finish(p)

ManualSend(max, up) ==
    \E count \in 1..Room(max) : \E choice \in ManualChoices(count, AnswersOf(0, up)) :
        trigger_manual_send(count, choice) /\ UNCHANGED reply

CheckSweep ==
    \E env \in [pending_emails(emails, now) -> CheckEnvs] :
        check_pending_emails(env)

(* The daily batch under both of its triggers (the cron job and the HTTP
   route), the manual send, the clock and the termination of the process,
   the provider accepting every message *)
Next ==
    \/ Tick(MaxTime)
    \/ \E p \in Invokers : DailyBatch(p, MaxSends, TRUE)
    \/ ManualSend(MaxSends, TRUE)
    \/ Crash

Spec == Init /\ [][Next]_vars

(* One thread of control and a provider that may fail any request: the cron
   job's daily batch and the manual send, one after the other *)
NextSend ==
    \/ Tick(MaxTime)
    \/ DailyBatch("cron", MaxSends, FALSE)
    \/ ManualSend(MaxSends, FALSE)

SpecSend == Init /\ [][NextSend]_vars

(* Two check delays: a message sent after one sweep comes due for a later
   one *)
SweepHorizon == 2 * CHECK_DELAY

(* One thread of control, the provider accepting every message: the cron
   job's daily batch, the manual send and the check sweep, one after the
   other *)
NextCheck ==
    \/ Tick(SweepHorizon)
    \/ DailyBatch("cron", MaxChecked, TRUE)
    \/ ManualSend(MaxChecked, TRUE)
    \/ CheckSweep

SpecCheck == InitWith({FullConfig}, {{ScheduleRow(1, 1, TRUE)}})
             /\ [][NextCheck]_vars

(* A store that outgrows one sweep: a manual send of about CHECK_LIMIT
   messages, up to MaxOver beyond the limit, to the two recipients in turn,
   the provider accepting every message; sweeps that meet the same mailbox
   situation and draws for every row *)
BulkChoice(count) ==
    [k \in 1..count |->
        [sender |-> "s@x",
         recipient |-> IF k % 2 = 1 THEN "a@x" ELSE "b@x",
         subject |-> "Kurze Frage",
         answer |-> CHOOSE a \in Accepting(0) : TRUE]]

ManualBulk ==
    \E count \in (CHECK_LIMIT - 1)..(CHECK_LIMIT + MaxOver) :
        /\ Len(emails) + count <= CHECK_LIMIT + MaxOver
        /\ trigger_manual_send(count, BulkChoice(count))
        /\ UNCHANGED reply

UniformSweep ==
    \E e \in CheckEnvs :
        \E env \in {[k \in pending_emails(emails, now) |-> e]} :
            check_pending_emails(env)

NextCap ==
    \/ Tick(SweepHorizon)
    \/ ManualBulk
    \/ UniformSweep

SpecCap == InitWith({FullConfig}, {{ScheduleRow(1, 1, TRUE)}})
           /\ [][NextCap]_vars

(* The interval job of __init__.py, lines 435-443, runs the sweep every 30
   minutes for as long as the process lives, and the clock advances: both
   are weakly fair.  The model's clock ends at SweepHorizon, so a message
   is sent only while its check still falls due within it. *)
BulkInTime == now + CHECK_DELAY <= SweepHorizon /\ ManualBulk

NextEventually ==
    \/ Tick(SweepHorizon)
    \/ BulkInTime
    \/ UniformSweep

SpecEventually ==
    /\ InitWith({FullConfig}, {{ScheduleRow(1, 1, TRUE)}})
    /\ [][NextEventually]_vars
    /\ WF_vars(Tick(SweepHorizon))
    /\ WF_vars(UniformSweep)

(* The sweep under both of its triggers, the interval job of the scheduler's
   thread (__init__.py, lines 435-443) and the route /api/check-pending
   (emails.py, lines 232-254), with the manual send and the clock *)
OverlappingSweep(p) ==
    \/ check_pending_select(p)
    \/ \E env \in CheckEnvs : check_pending_check(p, env)
    \/ check_pending_commit(p)

NextOverlap ==
    \/ Tick(SweepHorizon)
    \/ ManualSend(MaxChecked, TRUE)
    \/ \E p \in Invokers : OverlappingSweep(p)

SpecOverlap ==
    InitWith({FullConfig}, {{ScheduleRow(1, 1, TRUE)}}) /\ [][NextOverlap]_vars

----------------------------------------------------------------------------
(* api/schedule.py: the schedule editor's requests.  A request body is the
   JSON object sent; a field that is left out is None.  reply counts the
   requests served and keeps the last one with its status code. *)

Served == IF reply = None THEN 0 ELSE Val(reply).served
Response(request, status) ==
    Some([served |-> Served + 1, request |-> request, status |-> status])

RequestDays == 0..MaxDay
RequestTargets == {-1, 1}
RequestIds == 1..MaxDay
Optional(S) == {None} \cup {Some(x) : x \in S}

(* WarmupSchedule.query.get(schedule_id) *)
ScheduleById(rows, schedule_id) == {r \in rows : r.id = schedule_id}

NextScheduleId ==
    IF schedule = {} THEN 1
    ELSE 1 + (CHOOSE m \in {r.id : r \in schedule} : \A r \in schedule : r.id <= m)

Idle == \A p \in Invokers : session[p].pc = "idle"

(* GET /schedule/api/list *)
list_schedule ==
    /\ Idle /\ Served < MaxRequests
    /\ reply' = Response("list", 200)
    /\ UNCHANGED <<now, config, sweeps, email_addresses, schedule, executions, emails, statistics, session, ret,
                   postalSeq, senderCalls, targetRead, imapCalls>>

(* GET /schedule/api/<id>: get_or_404 raises NotFound, which the handler's
   except Exception turns into a 500 answer *)
get_schedule(schedule_id) ==
    /\ Idle /\ Served < MaxRequests
    /\ reply' = Response("get", IF ScheduleById(schedule, schedule_id) = {} THEN 500 ELSE 200)
    /\ UNCHANGED <<now, config, sweeps, email_addresses, schedule, executions, emails, statistics, session, ret,
                   postalSeq, senderCalls, targetRead, imapCalls>>

(* PUT /schedule/api/<id> *)
update_schedule(schedule_id, data) ==
    /\ Idle /\ Served < MaxRequests
    /\ LET found == ScheduleById(schedule, schedule_id) IN
       IF found = {}
       THEN /\ reply' = Response("update", 500)
            /\ UNCHANGED schedule
       ELSE IF IsSet(data.target_emails) /\ Val(data.target_emails) < 0
       THEN /\ reply' = Response("update", 400)
            /\ UNCHANGED schedule
       ELSE LET row == CHOOSE r \in found : TRUE
                updated == [row EXCEPT
                    !.target_emails = IF IsSet(data.target_emails)
                                      THEN Val(data.target_emails) ELSE @,
                    !.enabled = IF IsSet(data.enabled) THEN Val(data.enabled) ELSE @]
            IN  /\ schedule' = (schedule \ {row}) \cup {updated}
                /\ reply' = Response("update", 200)
    /\ UNCHANGED <<now, config, sweeps, email_addresses, executions, emails, statistics, session, ret,
                   postalSeq, senderCalls, targetRead, imapCalls>>

(* POST /schedule/api/create *)
create_schedule(data) ==
    /\ Idle /\ Served < MaxRequests
    /\ IF data.day = None \/ data.target_emails = None
       THEN /\ reply' = Response("create", 400)
            /\ UNCHANGED schedule
       ELSE IF \E r \in schedule : r.day = Val(data.day)
       THEN /\ reply' = Response("create", 400)
            /\ UNCHANGED schedule
       ELSE /\ schedule' = schedule \cup
                   {[id |-> NextScheduleId, day |-> Val(data.day),
                     target_emails |-> Val(data.target_emails),
                     enabled |-> IF IsSet(data.enabled) THEN Val(data.enabled) ELSE TRUE]}
            /\ reply' = Response("create", 201)
    /\ UNCHANGED <<now, config, sweeps, email_addresses, executions, emails, statistics, session, ret,
                   postalSeq, senderCalls, targetRead, imapCalls>>

(* what db.session.delete(schedule) leaves of the execution table: the
   relationship WarmupSchedule.executions cascades the delete to the rows
   that refer to the schedule row *)
delete_cascade(schedule_id) ==
    LET Kept(x) == x.schedule_day_id # schedule_id IN SelectSeq(executions, Kept)

(* DELETE /schedule/api/<id> *)
delete_schedule(schedule_id) ==
    /\ Idle /\ Served < MaxRequests
    /\ LET found == ScheduleById(schedule, schedule_id) IN
       IF found = {}
       THEN /\ reply' = Response("delete", 500)
            /\ UNCHANGED <<schedule, executions>>
       ELSE /\ schedule' = schedule \ found
            /\ executions' = delete_cascade(schedule_id)
            /\ reply' = Response("delete", 200)
    /\ UNCHANGED <<now, config, sweeps, email_addresses, emails, statistics, session, ret,
                   postalSeq, senderCalls, targetRead, imapCalls>>

(* the loop of bulk_update over the items: an item without id is skipped,
   an item whose row is not found leaves an error text *)
RECURSIVE bulk_rows(_, _)
bulk_rows(rows, items) ==
    IF items = << >> THEN rows
    ELSE LET item == Head(items)
             found == IF IsSet(item.id) THEN ScheduleById(rows, Val(item.id)) ELSE {}
         IN  IF found = {} THEN bulk_rows(rows, Tail(items))
             ELSE LET row == CHOOSE r \in found : TRUE
                      updated == [row EXCEPT
                          !.target_emails = IF IsSet(item.target_emails)
                                            THEN Val(item.target_emails) ELSE @,
                          !.enabled = IF IsSet(item.enabled)
                                      THEN Val(item.enabled) ELSE @]
                  IN  bulk_rows((rows \ {row}) \cup {updated}, Tail(items))

(* POST /schedule/api/bulk-update *)
bulk_update(schedules) ==
    /\ Idle /\ Served < MaxRequests
    /\ IF schedules = << >>
       THEN /\ reply' = Response("bulk-update", 400)
            /\ UNCHANGED schedule
       ELSE /\ schedule' = bulk_rows(schedule, schedules)
            /\ reply' = Response("bulk-update", 200)
    /\ UNCHANGED <<now, config, sweeps, email_addresses, executions, emails, statistics, session, ret,
                   postalSeq, senderCalls, targetRead, imapCalls>>

CreateBodies ==
    [day : Optional(RequestDays), target_emails : Optional(RequestTargets),
     enabled : Optional({FALSE})]
UpdateBodies == [target_emails : Optional(RequestTargets), enabled : Optional({FALSE})]
BulkItems == [id : Optional(RequestIds), target_emails : Optional({-1}), enabled : {None}]
BulkBodies == UNION {[1..n -> BulkItems] : n \in 0..MaxItems}

ScheduleRequest ==
    \/ list_schedule
    \/ \E schedule_id \in RequestIds : get_schedule(schedule_id)
    \/ \E schedule_id \in RequestIds : \E data \in UpdateBodies :
          update_schedule(schedule_id, data)
    \/ \E data \in CreateBodies : create_schedule(data)
    \/ \E schedule_id \in RequestIds : delete_schedule(schedule_id)
    \/ \E schedules \in BulkBodies : bulk_update(schedules)

(* GET /api/<email_id> of the emails blueprint; the primary key of an email
   is its position in the table.  get_or_404 raises NotFound inside the
   handler's try, and except Exception answers 500. *)
get_email(email_id) ==
    /\ Idle /\ Served < MaxRequests
    /\ reply' = Response("get-email", IF email_id \in 1..Len(emails) THEN 200 ELSE 500)
    /\ UNCHANGED <<now, config, sweeps, email_addresses, schedule, executions, emails, statistics, session, ret,
                   postalSeq, senderCalls, targetRead, imapCalls>>

(* The schedule editor and the email lookup beside the cron job's daily
   batch and the clock, one request or batch at a time, the provider
   accepting every message *)
NextSchedule ==
    \/ Tick(MaxTime)
    \/ DailyBatch("cron", MaxSends, TRUE)
    \/ ScheduleRequest
    \/ \E email_id \in 1..MaxSends : get_email(email_id)

SpecSchedule ==
    InitWith({OneRecipientConfig},
             {{ScheduleRow(1, 1, TRUE)}, {ScheduleRow(1, 1, TRUE), ScheduleRow(2, 1, TRUE)}})
    /\ [][NextSchedule]_vars

----------------------------------------------------------------------------
(* __init__.py: POST /test/check-email, the checker on a mailbox that holds
   more than the message looked for.  Two messages with the same subject
   (the generator's templates repeat) and different Message-IDs, each in at
   most one folder; INBOX exists, any of the conventional spam folders may
   or may not. *)

SearchedMessage == [message_id |-> Some(1), subject |-> "Kurze Frage", today |-> TRUE]
EarlierMessage == [message_id |-> Some(2), subject |-> "Kurze Frage", today |-> FALSE]

SpamFolderNames == {SPAM_FOLDERS[k] : k \in 1..Len(SPAM_FOLDERS)}

MailboxWith(spam_existing, at_searched, at_earlier, login, logout_ok) ==
    [login |-> login,
     logout_ok |-> logout_ok,
     folders |-> [f \in {"INBOX"} \cup spam_existing |->
                    (IF f = at_searched THEN {SearchedMessage} ELSE {})
                    \cup (IF f = at_earlier THEN {EarlierMessage} ELSE {})]]

Mailboxes ==
    UNION {{MailboxWith(spam_existing, at_searched, at_earlier, login, logout_ok) :
                at_searched \in {"INBOX", "nowhere"} \cup spam_existing,
                at_earlier \in {"INBOX", "nowhere"} \cup spam_existing,
                login \in {"ok", "LoginError"},
                logout_ok \in BOOLEAN} :
           spam_existing \in SUBSET SpamFolderNames}

(* The checker keeps nothing between two calls: one request is served *)
test_check_email(email_address, message_id, subject, mb) ==
    /\ Served = 0
    /\ reply' =
          IF email_address \notin config.RECIPIENT_IMAP_PASSWORDS
          THEN Response([route |-> "check-email", email |-> email_address], 400)
          ELSE Response([route |-> "check-email", email |-> email_address,
                         message_id |-> message_id, subject |-> subject,
                         mailbox |-> mb,
                         result |-> check_email(mb, message_id, subject)], 200)
    /\ UNCHANGED <<now, config, sweeps, email_addresses, schedule, executions, emails, statistics, session, ret,
                   postalSeq, senderCalls, targetRead, imapCalls>>

NextMailbox ==
    /\ Served = 0
    /\ \E email_address \in config.RECIPIENT_ADDRESSES,
          message_id \in {None, SearchedMessage.message_id},
          subject \in {"", SearchedMessage.subject},
          mb \in Mailboxes :
           test_check_email(email_address, message_id, subject, mb)

SpecMailbox ==
    InitWith({FullConfig}, {{ScheduleRow(1, 1, TRUE)}}) /\ [][NextMailbox]_vars

----------------------------------------------------------------------------
(* Statistic.calculate_rates on a row of any counts: today's row is set to
   counts sent >= inbox + spam, as lines 319-323 set it from a day's emails,
   and the rates are calculated *)

refresh_with(sent, inbox, spam) ==
    /\ statistics = {}
    /\ statistics' = {calculate_rates([NewStatistic(today) EXCEPT
                          !.emails_sent = sent, !.emails_inbox = inbox,
                          !.emails_spam = spam])}
    /\ UNCHANGED <<now, config, sweeps, email_addresses, reply, schedule, executions, emails, session, ret,
                   postalSeq, senderCalls, targetRead, imapCalls>>

NextRates ==
    \E sent \in 0..MaxCount : \E inbox \in 0..sent : \E spam \in 0..(sent - inbox) :
        refresh_with(sent, inbox, spam)

SpecRates ==
    InitWith({FullConfig}, {{ScheduleRow(1, 1, TRUE)}}) /\ [][NextRates]_vars

----------------------------------------------------------------------------
(* The cron job's daily batch, the process terminated at any point and
   started again, the provider accepting every message; room for a batch
   begun again after a termination *)
NextCrash ==
    \/ Tick(MaxTime)
    \/ DailyBatch("cron", MaxSends + MaxTarget, TRUE)
    \/ Crash

SpecCrash == Init /\ [][NextCrash]_vars

----------------------------------------------------------------------------
(* PostalEmailSender.send_email called on its own, the provider answering
   in any way, the documented shapes and the others *)
send(id, answer) ==
    /\ Served < MaxRequests
    /\ reply' = Response([route |-> "send", answer |-> answer,
                          result |-> send_email(answer)], 200)
    /\ UNCHANGED <<now, config, sweeps, email_addresses, schedule, executions, emails, statistics, session, ret,
                   postalSeq, senderCalls, targetRead, imapCalls>>

NextSender ==
    \E id \in 1..MaxSends : \E answer \in ProviderAnswers(id) \cup OddAnswers(id) :
        send(id, answer)

SpecSender == Init /\ [][NextSender]_vars

----------------------------------------------------------------------------
(* EmailContentGenerator.generate_email *)

MaxLines == 2

(* The static pairs (subject, body) per category, umlauts written out *)
fallback_templates ==
    [transactional |->
        << <<"Bestellbestaetigung", "Ihre Bestellung wurde bestaetigt und wird in Kuerze versandt.">>,
           <<"Passwort zuruecksetzen", "Wir haben eine Anfrage zum Zuruecksetzen Ihres Passworts erhalten.">>,
           <<"Konto-Verifizierung", "Bitte bestaetigen Sie Ihre E-Mail-Adresse, um die Registrierung abzuschliessen.">> >>,
     newsletter |->
        << <<"Monatliches Update", "Hier sind die Neuigkeiten dieses Monats von unserem Service.">>,
           <<"Tipps und Tricks", "Entdecken Sie neue Wege, um das Beste aus unserer Plattform herauszuholen.">>,
           <<"Community-Highlights", "Sehen Sie, was unsere Community diese Woche gemacht hat.">> >>,
     personal |->
        << <<"Kurze Frage", "Ich hoffe, es geht Ihnen gut. Ich wollte mich bezueglich... melden.">>,
           <<"Nachfassen", "Ich wollte nur kurz zu unserem letzten Gespraech nachfassen.">>,
           <<"Vielen Dank", "Ich wollte mir einen Moment Zeit nehmen, um mich fuer Ihre Hilfe zu bedanken.">> >>]

(* What the text-generation call comes to: it raises, its message carries
   no content (None), or it carries a text.  A text is its lines, a line
   what it starts with ("SUBJECT:", "BODY:" or neither) and what follows:
   nothing, blanks or words. *)
Completions ==
    {[kind |-> "api_error", lines |-> << >>], [kind |-> "no_content", lines |-> << >>]}
    \cup {[kind |-> "text", lines |-> l] :
             l \in UNION {[1..n -> [start : {"SUBJECT:", "BODY:", ""},
                                     rest : {"", " ", "Hallo"}]] : n \in 0..MaxLines}}

(* random.choice over the three templates of the category, personal for a
   category without templates; pick is the draw *)
get_fallback_content(content_type, pick) ==
    IF content_type \in DOMAIN fallback_templates
    THEN fallback_templates[content_type][pick]
    ELSE fallback_templates["personal"][pick]

(* lines 116-134 without the test of line 130 *)
parse_unchecked(completion, content_type, pick) ==
    LET Last(start) ==
            LET at == {k \in 1..Len(completion.lines) : completion.lines[k].start = start}
            IN  IF at = {} THEN ""
                ELSE LET rest == completion.lines[CHOOSE k \in at : \A j \in at : j <= k].rest
                     IN  IF rest = " " THEN "" ELSE rest
    IN  <<Last("SUBJECT:"), Last("BODY:")>>

(* lines 116-134: the loop keeps what follows the last line that starts
   with SUBJECT: and the last that starts with BODY:, stripped of blanks;
   an empty subject or body gives the fallback *)
parse(completion, content_type, pick) ==
    LET Last(start) ==
            LET at == {k \in 1..Len(completion.lines) : completion.lines[k].start = start}
            IN  IF at = {} THEN ""
                ELSE LET rest == completion.lines[CHOOSE k \in at : \A j \in at : j <= k].rest
                     IN  IF rest = " " THEN "" ELSE rest
        subject == Last("SUBJECT:")
        body == Last("BODY:")
    IN  IF subject = "" \/ body = ""
        THEN get_fallback_content(content_type, pick)
        ELSE <<subject, body>>

(* lines 55-66: 'mixed' becomes the category drawn; an exception of the
   call (the API's error, or None.strip() at line 116) gives the fallback *)
generate_email(content_type, drawn, completion, pick) ==
    LET resolved == IF content_type = "mixed" THEN drawn ELSE content_type
    IN  IF completion.kind = "text"
        THEN parse(completion, resolved, pick)
        ELSE get_fallback_content(resolved, pick)

ContentTypes == {"transactional", "newsletter", "personal", "mixed"}

(* One call of generate_email *)
generate(content_type, drawn, completion, pick) ==
    /\ Served = 0
    /\ reply' = Response([route |-> "generate", content_type |-> content_type,
                          completion |-> completion,
                          result |-> generate_email(content_type, drawn, completion, pick)],
                         200)
    /\ UNCHANGED <<now, config, sweeps, email_addresses, schedule, executions, emails, statistics, session, ret,
                   postalSeq, senderCalls, targetRead, imapCalls>>

NextGenerator ==
    /\ Served = 0
    /\ \E content_type \in ContentTypes, drawn \in ContentTypes \ {"mixed"},
          completion \in Completions, pick \in 1..3 :
          generate(content_type, drawn, completion, pick)

SpecGenerator ==
    InitWith({OneRecipientConfig}, {{ScheduleRow(1, 1, TRUE)}}) /\ [][NextGenerator]_vars

----------------------------------------------------------------------------
(* init_db at the start of the process: seed_default_data *)
seed_default_data ==
    /\ Idle
    /\ schedule' = seed_schedule(schedule)
    /\ email_addresses' = seed_addresses(email_addresses, config)
    /\ UNCHANGED <<now, config, sweeps, executions, emails, statistics, session, ret,
                   postalSeq, senderCalls, targetRead, imapCalls, reply>>

(* The store before the first start, or as the user has cut it down to one
   row of the schedule; then starts of the process and requests that
   change, add and delete schedule rows, in any order *)
InitSeed ==
    /\ now = 0
    /\ config \in Configs
    /\ \/ schedule = {} /\ email_addresses = {}
       \/ /\ schedule = {ScheduleRow(1, 1, TRUE)}
          /\ email_addresses = seed_addresses({}, config)
    /\ executions = << >>
    /\ emails = << >>
    /\ statistics = {}
    /\ session = [p \in Invokers |-> IdleSession]
    /\ ret = [p \in Invokers |-> NoReturn]
    /\ postalSeq = 0
    /\ senderCalls = [d \in Dates |-> 0]
    /\ targetRead = [d \in Dates |-> 0]
    /\ imapCalls = << >>
    /\ reply = None
    /\ sweeps = [p \in Invokers |-> IdleSweep]

NextSeed ==
    \/ seed_default_data
    \/ \E schedule_id \in RequestIds : \E data \in UpdateBodies :
          update_schedule(schedule_id, data)
    \/ \E data \in CreateBodies : create_schedule(data)
    \/ \E schedule_id \in RequestIds : delete_schedule(schedule_id)

SpecSeed == InitSeed /\ [][NextSeed]_vars

----------------------------------------------------------------------------
(* POST /api/send-manual *)

MaxManual == 2

(* The route hands count to trigger_manual_send and answers with what it
   returns; the request names no senders and no recipients *)
send_manual(count, choice) ==
    /\ Idle /\ Served = 0
    /\ trigger_manual_send(count, choice)
    /\ reply' = Response([route |-> "send-manual", count |-> count,
                          result |-> trigger_manual_send_return(count, choice),
                          pauses |-> manual_pauses(count)], 200)

(* The cron job's daily batch and one request to the manual send route,
   one after the other, the provider failing any request *)
NextManual ==
    \/ Tick(MaxTime)
    \/ DailyBatch("cron", MaxSends + MaxManual, FALSE)
    \/ /\ Idle /\ Served = 0
       /\ \E count \in 0..MaxManual : \E choice \in ManualChoices(count, AnswersOf(0, FALSE)) :
             send_manual(count, choice)

SpecManual == Init /\ [][NextManual]_vars

----------------------------------------------------------------------------
(* Properties of the daily batch, checked under Spec *)

(* Every execution of today is complete *)
CompletedToday ==
    /\ HasExecution(today)
    /\ \A k \in ExecutionsOn(today) : IsSet(executions[k].completed_at)

(* C1: once the daily batch has run to completion today (today's execution
   has completed_at set), a later send_daily_batch call is a single step that
   returns success = FALSE with a reason: it does not enter the send loop,
   makes no request to the provider, creates no email row and leaves the
   executions (sent_count, completed_at) as they are. *)
C1_SequentialIdempotence ==
    [][\A p \in Invokers :
          (CompletedToday /\ send_daily_batch_begin(p)) =>
              /\ session'[p] = IdleSession
              /\ ~ret'[p].success /\ ret'[p].error # ""
              /\ UNCHANGED <<executions, emails, postalSeq, senderCalls>>]_vars

(* C1: a call has been refused on a day whose batch is complete *)
C1_Witness ==
    \E p \in Invokers :
        /\ CompletedToday
        /\ FirstExecutionOn(today).sent_count > 0
        /\ ret[p].error = "Already executed today"

(* C2: on every date, the daily batches have handed the sender no more
   messages than the target_emails they read for that date, under every
   interleaving of the invocations.  The code does not keep this: an
   invocation that begins while another is in its loop finds today's
   execution incomplete and sends the whole target again. *)
C2_NoDoubleSending ==
    \A d \in Dates : senderCalls[d] <= targetRead[d]

(* C3: while a batch is in its loop with k of its target messages handed to
   the sender (0 < k < target), and it is the only batch that has sent for
   its date, the committed execution has sent_count = k and the store holds
   at least k email rows.  The code commits neither before the loop ends. *)
C3_DurablePerMessage ==
    \A p \in Invokers :
        LET s == session[p] IN
        (/\ s.pc = "loop"
         /\ 0 < s.i /\ s.i < s.target_emails
         /\ senderCalls[ExecutionRow(s.execution).date] = s.i) =>
            /\ ExecutionRow(s.execution).sent_count = s.i
            /\ Len(emails) >= s.i

(* C4: should_send_today is FALSE whenever an execution of today exists
   with completed_at set.  The code looks at the first execution of today
   only, and two invocations that begin together insert one each. *)
C4_FalseWhenComplete ==
    (\E k \in ExecutionsOn(today) : IsSet(executions[k].completed_at))
        => ~should_send_today

----------------------------------------------------------------------------
(* Properties of the send loops under a failing provider, checked under
   SpecSend *)

(* The request the provider answered with a is a failed one *)
ProviderFailed(a) ==
    ~(a.kind = "response" /\ a.status_code = 200 /\ a.status = "success")

(* C9: a failed provider call costs its own message only.  In the daily
   batch the iteration records one row with status 'failed' and the loop goes
   on; the batch ends only after target_emails iterations, commits one row
   per iteration, stamps completed_at and returns success.  In the manual
   send every one of the count messages is recorded, the failed ones with
   status 'failed'. *)
C9_SendFailuresIsolated ==
    [][/\ \A p \in Invokers :
             session'[p].i = session[p].i + 1 =>
                 \A s \in config.SENDER_ADDRESSES,
                    r \in config.RECIPIENT_ADDRESSES, subj \in Subjects,
                    a \in ProviderAnswers(postalSeq + 1) :
                    (ProviderFailed(a) /\ send_daily_batch_send(p, s, r, subj, a)) =>
                        /\ session'[p].pc = "loop"
                        /\ Len(session'[p].pending) = session'[p].i
                        /\ session'[p].pending[session'[p].i].status = "failed"
       /\ \A p \in Invokers :
             send_daily_batch_finish(p) =>
                 /\ Len(session[p].pending) = session[p].target_emails
                 /\ emails' = emails \o session[p].pending
                 /\ \E k \in 1..Len(executions') :
                        /\ executions'[k].id = session[p].execution
                        /\ IsSet(executions'[k].completed_at)
                 /\ ret'[p].success
       /\ (session' = session /\ postalSeq' > postalSeq) =>
             LET count == postalSeq' - postalSeq IN
             /\ Len(emails') = Len(emails) + count
             /\ \A k \in 1..count : \A a \in ProviderAnswers(postalSeq + k) :
                    LET e == emails'[Len(emails) + k] IN
                    (/\ ProviderFailed(a)
                     /\ e = NewEmail(e.sender, e.recipient, e.subject,
                                     send_email(a), now))
                        => e.status = "failed"]_vars

(* C9: a batch of two whose first message the provider failed and whose
   second it accepted has completed *)
C9_Witness ==
    \E p \in Invokers :
        /\ ret[p].success /\ ret[p].target_count = 2
        /\ Len(emails) = 2 /\ senderCalls[0] = 2
        /\ emails[1].status = "failed" /\ emails[2].status = "sent"
        /\ Len(executions) = 1 /\ IsSet(executions[1].completed_at)

----------------------------------------------------------------------------
(* Properties of the check sweep, checked under SpecCheck *)

(* A step of check_pending_emails: the one operation that changes rows the
   store already holds *)
SweepStep == Len(emails') = Len(emails) /\ emails' # emails

(* C5: every email whose checked_at is set has a delivery_status other than
   'pending', after any sequence of daily batches, manual sends and sweeps,
   the sweeps of recipients without a credential and of failing checks
   among them. *)
C5_CheckedNotPending ==
    \A k \in 1..Len(emails) :
        IsSet(emails[k].checked_at) => emails[k].delivery_status # "pending"

(* C5: a sweep has checked a row without a credential, and one whose check
   failed *)
C5_Witness ==
    \E j, k \in 1..Len(emails) :
        /\ emails[j].recipient \notin config.RECIPIENT_IMAP_PASSWORDS
        /\ IsSet(emails[j].checked_at)
        /\ IsSet(emails[k].checked_at)
        /\ imapCalls[k].imap_errors = 1

(* C6: once checked_at of an email is set, no step changes its
   delivery_status, checked_at, is_read or moved_to_folder, and no call is
   made to the mailbox checker for it. *)
C6_CheckedOnce ==
    [][\A k \in 1..Len(emails) :
          IsSet(emails[k].checked_at) =>
              /\ k <= Len(emails')
              /\ emails'[k].delivery_status = emails[k].delivery_status
              /\ emails'[k].checked_at = emails[k].checked_at
              /\ emails'[k].is_read = emails[k].is_read
              /\ emails'[k].moved_to_folder = emails[k].moved_to_folder
              /\ imapCalls'[k] = imapCalls[k]]_vars

(* C6: a later sweep has checked row k while row j, checked by an earlier
   sweep, still shows that one check *)
C6_Witness ==
    \E j, k \in 1..Len(emails) :
        /\ IsSet(emails[j].checked_at) /\ IsSet(emails[k].checked_at)
        /\ Val(emails[j].checked_at) < Val(emails[k].checked_at)
        /\ imapCalls[j].check_email = 1
        /\ emails[j].is_read

(* C8: a sweep leaves each selected row whose recipient has no credential
   with delivery_status 'unknown' and checked_at set, makes no call to the
   mailbox checker for it, and goes on to every other selected row. *)
C8_NoCredentialUnknown ==
    [][SweepStep =>
          \A k \in pending_emails(emails, now) :
              /\ IsSet(emails'[k].checked_at)
              /\ emails[k].recipient \notin config.RECIPIENT_IMAP_PASSWORDS =>
                     /\ emails'[k].delivery_status = "unknown"
                     /\ emails'[k].checked_at = Some(now)
                     /\ imapCalls'[k] = imapCalls[k]]_vars

(* C8: one sweep has set row j, without a credential, to 'unknown' with no
   call, and has checked the later row k in the mailbox *)
C8_Witness ==
    \E j, k \in 1..Len(emails) :
        /\ j < k
        /\ emails[j].recipient \notin config.RECIPIENT_IMAP_PASSWORDS
        /\ emails[j].delivery_status = "unknown"
        /\ imapCalls[j] = NoCalls
        /\ IsSet(emails[j].checked_at)
        /\ emails[k].checked_at = emails[j].checked_at
        /\ imapCalls[k].check_email = 1

(* C10: a selected row whose mailbox check met an error (login, connection
   or any other) ends the sweep with delivery_status 'failed' and checked_at
   set, and every other row the sweep selected is processed. *)
C10_CheckFailuresIsolated ==
    [][SweepStep =>
          \A k \in pending_emails(emails, now) :
              /\ IsSet(emails'[k].checked_at)
              /\ emails'[k].delivery_status # "pending"
              /\ imapCalls'[k].imap_errors > imapCalls[k].imap_errors =>
                     /\ emails'[k].delivery_status = "failed"
                     /\ emails'[k].checked_at = Some(now)]_vars

(* C10: in one sweep the check of row j failed and the later row k was
   found in the inbox *)
C10_Witness ==
    \E j, k \in 1..Len(emails) :
        /\ j < k
        /\ imapCalls[j].imap_errors = 1
        /\ emails[j].delivery_status = "failed"
        /\ IsSet(emails[j].checked_at)
        /\ emails[k].checked_at = emails[j].checked_at
        /\ emails[k].delivery_status = "inbox"

----------------------------------------------------------------------------
(* The limit of a sweep, checked under SpecCap *)

(* The rows a step has processed: delivery_status or checked_at changed *)
Processed ==
    {k \in 1..Len(emails) :
        \/ emails'[k].delivery_status # emails[k].delivery_status
        \/ emails'[k].checked_at # emails[k].checked_at}

(* C7: one sweep processes at most CHECK_LIMIT rows; when more than
   CHECK_LIMIT rows are eligible it processes exactly CHECK_LIMIT of them,
   and the other eligible rows stay 'pending' with checked_at unset. *)
C7_SweepCap ==
    [][SweepStep =>
          LET N == Cardinality(Eligible(emails, now)) IN
          /\ Processed \subseteq Eligible(emails, now)
          /\ Cardinality(Processed) <= CHECK_LIMIT
          /\ N > CHECK_LIMIT =>
                 /\ Cardinality(Processed) = CHECK_LIMIT
                 /\ Cardinality(Eligible(emails', now)) = N - CHECK_LIMIT
                 /\ \A k \in Eligible(emails, now) \ Processed :
                        /\ emails'[k].delivery_status = "pending"
                        /\ emails'[k].checked_at = None]_vars

(* C7: of CHECK_LIMIT + 2 rows that were due, one sweep has checked
   CHECK_LIMIT and two are still eligible *)
C7_Witness ==
    /\ Len(emails) = CHECK_LIMIT + 2
    /\ Cardinality({k \in 1..Len(emails) : IsSet(emails[k].checked_at)}) = CHECK_LIMIT
    /\ Cardinality(Eligible(emails, now)) = 2

----------------------------------------------------------------------------
(* Daily statistics *)

(* C11: refreshing the statistics twice in a row over the same emails gives
   the table that refreshing once gives, counts and rates alike, and the
   table never holds two rows for one date. *)
C11_RefreshIdempotent ==
    LET once == update_daily_statistics(emails, statistics, now)
        twice == update_daily_statistics(emails, once, now)
    IN  /\ twice = once
        /\ \A d \in Dates : Cardinality({r \in once : r.date = d}) <= 1
        /\ \A d \in Dates : Cardinality({r \in statistics : r.date = d}) <= 1

(* a refresh has stored today's row over two emails, one of them found in
   the inbox *)
C11_Witness ==
    \E r \in statistics : r.date = today /\ r.emails_sent = 2 /\ r.emails_inbox = 1

(* the counts of the emails sent on the date of clock t, read off the emails
   alone *)
SentOn(t) == {i \in 1..Len(emails) : DateOf(emails[i].sent_at) = DateOf(t)}
CountsOn(t) ==
    [emails_sent |-> Cardinality(SentOn(t)),
     emails_inbox |-> Cardinality({i \in SentOn(t) : emails[i].delivery_status = "inbox"}),
     emails_spam |-> Cardinality({i \in SentOn(t) : emails[i].delivery_status = "spam"}),
     emails_failed |-> Cardinality({i \in SentOn(t) : emails[i].status = "failed"}),
     bounce_count |-> Cardinality({i \in SentOn(t) : emails[i].status = "bounced"})]
CountsOf(r) ==
    [emails_sent |-> r.emails_sent, emails_inbox |-> r.emails_inbox,
     emails_spam |-> r.emails_spam, emails_failed |-> r.emails_failed,
     bounce_count |-> r.bounce_count]
StaleRow ==
    [NewStatistic(today) EXCEPT !.emails_sent = 9, !.emails_inbox = 9, !.emails_spam = 9,
                                !.emails_failed = 9, !.bounce_count = 9]

(* C12: after a refresh today's row holds the counts of the emails sent
   today, whatever the table held before: the stored table, no row for
   today, or a row of other numbers all give the same row; and the row the
   operations have stored for today holds these counts. *)
C12_RecountedFromEmails ==
    LET others == {r \in statistics : r.date # today}
    IN  /\ \A before \in {statistics, others, others \cup {StaleRow}} :
              LET after == update_daily_statistics(emails, before, now)
              IN  /\ CountsOf(TodayStatistic(after, today)) = CountsOn(now)
                  /\ {r \in after : r.date # today} = others
        /\ \A r \in statistics : r.date = today => CountsOf(r) = CountsOn(now)

(* today's row counts the one email sent today, while an email of an earlier
   day, found in spam, is in the store and in that day's row *)
C12_Witness ==
    /\ \E r \in statistics : r.date = today /\ r.emails_sent = 1
    /\ \E r \in statistics : r.date < today /\ r.emails_spam = 1
    /\ \E i \in 1..Len(emails) :
          DateOf(emails[i].sent_at) < today /\ emails[i].delivery_status = "spam"

----------------------------------------------------------------------------
(* The warmup day and the daily batch *)

(* the earliest date an execution row carries *)
FirstBatchDate ==
    CHOOSE d \in {executions[k].date : k \in 1..Len(executions)} :
        \A k \in 1..Len(executions) : d <= executions[k].date

(* C16: the current warmup day is 1 while no execution exists, and otherwise
   the number of days from the date of the first execution to today, plus
   one. *)
C16_WarmupDayFromFirstBatch ==
    get_current_warmup_day =
        IF Len(executions) = 0 THEN 1 ELSE (today - FirstBatchDate) + 1

(* the day after the first batch: the warmup day is 2 whether the first day
   left one execution or two *)
C16_Witness ==
    /\ Len(executions) >= 1
    /\ FirstBatchDate = 0
    /\ today = 1
    /\ get_current_warmup_day = 2

(* the invocation of p finds no enabled schedule row for the warmup day, or
   an empty address pool *)
NothingToSend ==
    \/ get_today_schedule = None
    \/ config.SENDER_ADDRESSES = {}
    \/ config.RECIPIENT_ADDRESSES = {}

(* C17: a daily batch that finds no enabled schedule row for the warmup day,
   or an empty sender or recipient pool, returns success = false with a
   reason, and ends there: no execution and no email is created, nothing is
   handed to the sender, and the invocation is over. *)
C17_RefusedBatchChangesNothing ==
    [][\A p \in Invokers :
          (NothingToSend /\ send_daily_batch_begin(p)) =>
              /\ ~ret'[p].success
              /\ ret'[p].error \in {"No schedule for today", "Already executed today",
                                    "No addresses configured"}
              /\ session'[p] = IdleSession
              /\ UNCHANGED <<executions, emails, statistics, senderCalls, postalSeq>>]_vars

(* a batch was refused for want of addresses although a schedule row for
   the day exists, and the store is empty *)
C17_Witness ==
    /\ ret["cron"].error = "No addresses configured"
    /\ IsSet(get_today_schedule)
    /\ executions = << >>
    /\ emails = << >>
    /\ \A d \in Dates : senderCalls[d] = 0

(* C19: no date has two execution rows. *)
C19_OneExecutionPerDate ==
    \A d \in Dates : Cardinality(ExecutionsOn(d)) <= 1

----------------------------------------------------------------------------
(* The schedule editor *)

(* C18: no request of the schedule editor, reading or writing, changes or
   removes an execution or an email. *)
C18_EditorLeavesExecutions ==
    [][reply' # reply => UNCHANGED <<executions, emails>>]_vars

(* C20: whatever requests the schedule editor has served, no two schedule
   rows carry the same day number and every day number is at least 1. *)
C20_DayNumbersValid ==
    /\ \A r1, r2 \in schedule : r1.day = r2.day => r1 = r2
    /\ \A r \in schedule : r.day >= 1

----------------------------------------------------------------------------
(* The mailbox check *)

(* a check that was answered, over a connection that worked *)
Checked ==
    /\ IsSet(reply)
    /\ Val(reply).status = 200
    /\ Val(reply).request.mailbox.login = "ok"
    /\ Val(reply).request.mailbox.logout_ok

(* the messages of folder f of the mailbox checked that are the message
   looked for: the one with the identifier when an identifier was given,
   one with the subject when only a subject was given, one received today
   when neither was given *)
SearchedIn(f) ==
    LET req == Val(reply).request IN
    IF f \notin DOMAIN req.mailbox.folders THEN {}
    ELSE {m \in req.mailbox.folders[f] :
             IF IsSet(req.message_id) THEN m.message_id = req.message_id
             ELSE IF req.subject # "" THEN m.subject = req.subject
             ELSE m.today}

(* C14: when the message looked for is not in INBOX and is in one of the
   conventional spam folders, the check answers found, 'spam' and a folder
   that holds the message, whichever other folders of the list exist. *)
C14_SpamPlacementReported ==
    (/\ Checked
     /\ SearchedIn("INBOX") = {}
     /\ \E f \in SpamFolderNames : SearchedIn(f) # {})
    => LET result == Val(reply).request.result IN
       /\ result.found
       /\ result.delivery_status = "spam"
       /\ IsSet(result.folder)
       /\ Val(result.folder) \in SpamFolderNames
       /\ SearchedIn(Val(result.folder)) # {}

(* C15: a check that reports a folder reports one that holds the message
   looked for: with an identifier given, a message with the same subject and
   another identifier does not count. *)
C15_MatchByIdentifier ==
    (Checked /\ Val(reply).request.result.found)
    => SearchedIn(Val(Val(reply).request.result.folder)) # {}

----------------------------------------------------------------------------
(* The rates *)

(* a rate in units of 2^-52: rates are 0 or at least 1, so the value is a
   whole number of these units *)
Fixed(d) == IF d = Zero THEN <<0, 0, 0>> ELSE Scale(d.m, 2^(d.e + 52))
Units(k) == <<k * 2^12, 0, 0>>

(* d is 100 * a / n to within 2^-46 *)
Near(d, a, n) ==
    LET x == Scale(Fixed(d), n)
        y == Units(100 * a)
        tolerance == <<0, 0, n * 2^6>>
    IN  Leq(x, Plus(y, tolerance)) /\ Leq(y, Plus(x, tolerance))

RatesAsDerived(r) ==
    /\ r.emails_sent = 0 => r.success_rate = Zero /\ r.spam_rate = Zero
    /\ r.emails_sent > 0 =>
          /\ Near(r.success_rate, r.emails_inbox, r.emails_sent)
          /\ Near(r.spam_rate, r.emails_spam, r.emails_sent)
    /\ (r.emails_sent = 10 /\ r.emails_inbox = 7 /\ r.emails_spam = 2) =>
          /\ Fixed(r.success_rate) = Units(70)
          /\ Fixed(r.spam_rate) = Units(20)
    /\ Leq(Fixed(r.success_rate), Units(100))
    /\ Leq(Fixed(r.spam_rate), Units(100))

(* the sum of two rates as a double, in units of 2^-52: the exact sum x
   rounded to 53 bits *)
Rounded(x) ==
    IF x[1] < 2^13 THEN x
    ELSE LET s == CHOOSE k \in 1..7 : x[1] < 2^(13 + k) /\ x[1] >= 2^(12 + k)
             d == Round(ShiftRight(x, s), 0, Dropped(x, s), 2^(s - 1))
         IN  Scale(d.m, 2^(s + d.e))
SumOfRates(r) == Plus(Fixed(r.success_rate), Fixed(r.spam_rate))

(* C13: with sent = 0 both rates are 0; with sent > 0 the rates are
   100 * inbox / sent and 100 * spam / sent as doubles, that is to within
   2^-46 (exactly 70 and 20 for sent = 10, inbox = 7, spam = 2); each rate
   lies in [0, 100], and their sum is at most 100 + 2^-45. *)
C13_RatesWithinRounding ==
    \A r \in statistics :
        /\ RatesAsDerived(r)
        /\ Leq(SumOfRates(r), Plus(Units(100), <<0, 0, 2^7>>))

(* sent = 11, inbox = 2, spam = 9: the two rates add up to more than 100,
   also when the sum is taken as a double *)
C13_Witness ==
    \E r \in statistics :
        /\ r.emails_sent = 11 /\ r.emails_inbox = 2 /\ r.emails_spam = 9
        /\ ~Leq(Rounded(SumOfRates(r)), Units(100))

(* C13 as stated: the same, with the sum of the two rates, taken as a
   double, at most 100. *)
C13_RatesSumAtMost100 ==
    \A r \in statistics :
        /\ RatesAsDerived(r)
        /\ Leq(Rounded(SumOfRates(r)), Units(100))

(* C24: a manual send with the address pools configured adds exactly
   count emails, each pending with its check scheduled CHECK_DELAY after
   the send, whether or not today's batch is due; it leaves the schedule,
   the executions, should_send_today and the warmup day as they were; it
   returns total_count = count and sent_count = the number of its emails
   whose send succeeded, at most total_count. *)
ManualRequest == Val(reply').request

NewManualRows == SubSeq(emails', Len(emails) + 1, Len(emails'))

C24_ManualSendOutsideGate ==
    [][(reply' # reply /\ config.SENDER_ADDRESSES # {} /\ config.RECIPIENT_ADDRESSES # {}) =>
          /\ Len(emails') = Len(emails) + ManualRequest.count
          /\ SubSeq(emails', 1, Len(emails)) = emails
          /\ \A k \in 1..Len(NewManualRows) :
                /\ NewManualRows[k].delivery_status = "pending"
                /\ NewManualRows[k].checked_at = None
                /\ NewManualRows[k].check_scheduled_at = now + CHECK_DELAY
          /\ UNCHANGED <<schedule, executions>>
          /\ should_send_today' = should_send_today
          /\ get_current_warmup_day' = get_current_warmup_day
          /\ ManualRequest.result.success
          /\ ManualRequest.result.total_count = ManualRequest.count
          /\ ManualRequest.result.sent_count =
                Cardinality({k \in 1..Len(NewManualRows) : NewManualRows[k].status = "sent"})
          /\ ManualRequest.result.sent_count <= ManualRequest.result.total_count]_vars

(* a manual send of two emails, one of them failed, answered on a day whose
   batch is complete *)
C24_Witness ==
    /\ reply # None
    /\ Val(reply).request.count = 2
    /\ Val(reply).request.result.success
    /\ Val(reply).request.result.sent_count = 1
    /\ \E k \in 1..Len(executions) :
          executions[k].date = today /\ IsSet(executions[k].completed_at)
    /\ ~should_send_today
    /\ Len(emails) >= 3

----------------------------------------------------------------------------
(* C25: a daily batch that runs to completion on a day without an earlier
   execution has called the sender target_emails times and adds
   target_emails emails, each pending, unchecked and with its check
   scheduled CHECK_DELAY after its send; its execution refers to the
   schedule row of the day, counts target_emails and carries completed_at;
   the statistic of the day is recounted and, the batch ending on the day
   it began, counts the new emails.  Checked under SpecSend on the step
   that ends the batch. *)
BatchEnds(p) == session[p].pc = "loop" /\ session'[p].pc = "idle"

BatchRows == SubSeq(emails', Len(emails) + 1, Len(emails'))

C25_CompletedBatch ==
    [][BatchEnds("cron") =>
          LET n == session["cron"].target_emails
              before == ExecutionRow(session["cron"].execution)
              after == executions'[CHOOSE k \in 1..Len(executions') :
                                      executions'[k].id = session["cron"].execution]
              stat == TodayStatistic(statistics', today)
          IN  /\ Cardinality(ExecutionsOn(before.date)) = 1
              /\ before.sent_count = 0 /\ before.completed_at = None
              /\ senderCalls[before.date] = n
              /\ Len(emails') = Len(emails) + n
              /\ SubSeq(emails', 1, Len(emails)) = emails
              /\ \A k \in 1..Len(BatchRows) :
                    /\ BatchRows[k].delivery_status = "pending"
                    /\ BatchRows[k].checked_at = None
                    /\ BatchRows[k].check_scheduled_at = BatchRows[k].sent_at + CHECK_DELAY
                    /\ DateOf(BatchRows[k].sent_at) >= before.date
              /\ \E r \in schedule :
                    /\ r.id = after.schedule_day_id
                    /\ r.target_emails = n
              /\ after.date = before.date
              /\ after.sent_count = n
              /\ after.completed_at = Some(now)
              /\ stat \in statistics'
              /\ stat.emails_sent = Cardinality(today_emails(emails', now))
              /\ before.date = today => stat.emails_sent >= n]_vars

(* a batch of two has ended on the day it began, its emails still unchecked *)
C25_Witness ==
    /\ ret["cron"].success /\ ret["cron"].target_count = 2
    /\ Len(executions) = 1
    /\ executions[1].sent_count = 2 /\ IsSet(executions[1].completed_at)
    /\ senderCalls[executions[1].date] = 2
    /\ Len(emails) = 2
    /\ \A k \in 1..2 : /\ emails[k].delivery_status = "pending"
                       /\ emails[k].check_scheduled_at = emails[k].sent_at + CHECK_DELAY
                       /\ DateOf(emails[k].sent_at) = executions[1].date
    /\ TodayStatistic(statistics, executions[1].date) \in statistics
    /\ TodayStatistic(statistics, executions[1].date).emails_sent = 2

----------------------------------------------------------------------------
(* C27: the process terminated after k >= 1 of target_emails sends, k below
   the target, leaves the execution without completed_at, and
   should_send_today stays true on that day; the batch begun next on that
   day takes up the same execution and runs the loop from 0 to the whole
   target_emails, so that the sender is called k + target_emails times for
   the day.  Checked under SpecCrash. *)
Terminated(p) ==
    /\ session[p].pc = "loop" /\ session'[p].pc = "idle"
    /\ session[p].i >= 1 /\ session[p].i < session[p].target_emails

BegunAgain(p) ==
    /\ session[p].pc = "idle" /\ session'[p].pc # "idle"
    /\ HasExecution(today) /\ senderCalls[today] >= 1

C27_TerminatedBatchRepeats ==
    [][/\ Terminated("cron") =>
             LET e == ExecutionRow(session["cron"].execution) IN
             /\ executions' = executions
             /\ e.completed_at = None
             /\ e.date = today => should_send_today'
       /\ BegunAgain("cron") =>
             /\ session'["cron"].pc = "loop"
             /\ session'["cron"].execution = FirstExecutionOn(today).id
             /\ session'["cron"].i = 0
             /\ session'["cron"].target_emails = Val(get_today_schedule).target_emails
       /\ (BatchEnds("cron") /\ executions' # executions) =>
             /\ session["cron"].i = session["cron"].target_emails
             /\ senderCalls[ExecutionRow(session["cron"].execution).date]
                   >= session["cron"].target_emails]_vars

(* a batch of two, terminated after its first send and begun again, has
   ended: three calls of the sender on the day *)
C27_Witness ==
    /\ ret["cron"].success /\ ret["cron"].target_count = 2
    /\ Len(executions) = 1 /\ IsSet(executions[1].completed_at)
    /\ senderCalls[executions[1].date] = 3

----------------------------------------------------------------------------
(* C29: a sweep at time t changes only emails whose check_scheduled_at is
   at most t, so that an email whose check is not yet due stays pending and
   unchecked; every email with checked_at set has
   checked_at >= check_scheduled_at >= sent_at.  Checked under SpecCheck. *)
C29_DeferredVerification ==
    /\ [](\A k \in 1..Len(emails) :
            /\ emails[k].check_scheduled_at >= emails[k].sent_at
            /\ IsSet(emails[k].checked_at) =>
                  Val(emails[k].checked_at) >= emails[k].check_scheduled_at)
    /\ [][SweepStep =>
            \A k \in 1..Len(emails) :
                IF emails[k].check_scheduled_at <= now
                THEN emails'[k] # emails[k] => emails'[k].checked_at = Some(now)
                ELSE /\ emails'[k] = emails[k]
                     /\ emails'[k].delivery_status = "pending"
                     /\ emails'[k].checked_at = None]_vars

(* a sweep has checked row j and left row k, sent before the sweep and due
   after it, pending *)
C29_Witness ==
    \E j, k \in 1..Len(emails) :
        /\ IsSet(emails[j].checked_at)
        /\ emails[k].sent_at <= Val(emails[j].checked_at)
        /\ emails[k].check_scheduled_at > Val(emails[j].checked_at)
        /\ emails[k].delivery_status = "pending"
        /\ emails[k].checked_at = None

----------------------------------------------------------------------------
(* C30: the check searches INBOX first and answers 'inbox' with folder
   INBOX when the search matches there, whatever the spam folders hold;
   otherwise it answers 'spam' with the first folder of [Gmail]/Spam, Spam,
   Junk, SPAM, [Gmail]/Junk in which the search matches, a folder missing
   on the server being passed over; it answers 'unknown' with found false
   only when the search matches in no folder.  A match is a message the
   search criteria select.  Checked under SpecMailbox on the checks whose
   login and logout succeed. *)
SearchOrder == <<"INBOX", "[Gmail]/Spam", "Spam", "Junk", "SPAM", "[Gmail]/Junk">>

MatchesIn(f) ==
    LET req == Val(reply).request IN
    IF f \notin DOMAIN req.mailbox.folders THEN {}
    ELSE {m \in req.mailbox.folders[f] :
             IF ~IsSet(req.message_id) /\ req.subject = "" THEN m.today
             ELSE \/ IsSet(req.message_id) /\ m.message_id = req.message_id
                  \/ req.subject # "" /\ m.subject = req.subject}

Matching == {k \in 1..Len(SearchOrder) : MatchesIn(SearchOrder[k]) # {}}

C30_SearchOrder ==
    Checked =>
        LET result == Val(reply).request.result IN
        IF Matching = {}
        THEN result = [found |-> FALSE, delivery_status |-> "unknown", folder |-> None]
        ELSE LET first == CHOOSE k \in Matching : \A j \in Matching : k <= j IN
             /\ result.found
             /\ result.folder = Some(SearchOrder[first])
             /\ result.delivery_status = IF first = 1 THEN "inbox" ELSE "spam"

(* a check has answered Junk for a mailbox without [Gmail]/Spam and Spam
   whose SPAM folder holds a match as well *)
C30_Witness ==
    /\ Checked
    /\ Val(reply).request.result.folder = Some("Junk")
    /\ DOMAIN Val(reply).request.mailbox.folders = {"INBOX", "Junk", "SPAM"}
    /\ MatchesIn("SPAM") # {}
    /\ MatchesIn("INBOX") = {}

----------------------------------------------------------------------------
(* C21: a get, update or delete request for a schedule id that no row
   carries, and a get request for an email id that no row carries, is
   answered 404 and changes nothing in the store.  Stated on the steps of
   SpecSchedule that serve such a request. *)
MissingSchedule(schedule_id) == ScheduleById(schedule, schedule_id) = {}

ServesMissing ==
    \/ \E schedule_id \in RequestIds :
          /\ MissingSchedule(schedule_id)
          /\ IF get_schedule(schedule_id) THEN TRUE
             ELSE IF delete_schedule(schedule_id) THEN TRUE
             ELSE \E data \in UpdateBodies : update_schedule(schedule_id, data)
    \/ \E email_id \in 1..MaxSends :
          email_id \notin 1..Len(emails) /\ get_email(email_id)

C21_MissingIdNotFound ==
    [][ServesMissing =>
          /\ Val(reply').status = 404
          /\ UNCHANGED <<schedule, executions, emails, statistics>>]_vars

----------------------------------------------------------------------------
(* C22: send_email reports success exactly when the provider answers HTTP
   200 with a body whose status is 'success'; every other outcome gives
   success false, no message id and an error text.  Stated on the answers
   send_email has returned under SpecSender. *)
AnsweredSuccess(a) ==
    /\ a.kind \in {"response", "no_data", "bad_data"}
    /\ a.status_code = 200 /\ a.status = "success"

C22_SuccessExactlyOn200Success ==
    (IsSet(reply) /\ Val(reply).request.route = "send") =>
        LET a == Val(reply).request.answer
            result == Val(reply).request.result
        IN  IF AnsweredSuccess(a)
            THEN result.success /\ result.message_id = a.message_id
            ELSE ~result.success /\ result.message_id = None /\ IsSet(result.error)

----------------------------------------------------------------------------
(* C23: for each of the four categories and whatever the text-generation
   call comes to, generate_email returns a subject and a body that are both
   non-empty; when the call raised or its text lacks a line that starts
   with SUBJECT: or one that starts with BODY:, the pair is one of the
   static pairs of the category asked for, of one of the three categories
   when 'mixed' was asked for.  Checked under SpecGenerator. *)
FallbackPairs(content_type) ==
    LET of(c) == {fallback_templates[c][k] : k \in 1..Len(fallback_templates[c])}
    IN  IF content_type = "mixed"
        THEN of("transactional") \cup of("newsletter") \cup of("personal")
        ELSE of(content_type)

LacksField(completion) ==
    \/ completion.kind # "text"
    \/ \E start \in {"SUBJECT:", "BODY:"} :
          \A k \in 1..Len(completion.lines) : completion.lines[k].start # start

C23_GeneratorTotal ==
    (IsSet(reply) /\ Val(reply).request.route = "generate") =>
        LET req == Val(reply).request IN
        /\ Len(req.result) = 2
        /\ req.result[1] # "" /\ req.result[2] # ""
        /\ LacksField(req.completion) => req.result \in FallbackPairs(req.content_type)

(* 'mixed' was asked for, the text carried a subject and no body, and a
   static pair was returned *)
C23_Witness ==
    /\ IsSet(reply)
    /\ Val(reply).request.content_type = "mixed"
    /\ Val(reply).request.completion.kind = "text"
    /\ \E k \in 1..Len(Val(reply).request.completion.lines) :
          /\ Val(reply).request.completion.lines[k].start = "SUBJECT:"
          /\ Val(reply).request.completion.lines[k].rest = "Hallo"
    /\ LacksField(Val(reply).request.completion)
    /\ Val(reply).request.result = <<"Nachfassen", "Ich wollte nur kurz zu unserem letzten Gespraech nachfassen.">>

----------------------------------------------------------------------------
(* C26: a start of the process adds schedule rows only to an empty schedule
   table, and then the ramp of days 1 to 15 with targets rising from 5 to
   100; it adds address rows only to an empty address table; on a table
   that holds a row, edited or not, it adds, changes and removes nothing;
   a second start right after changes nothing.  The steps that serve no
   request are the starts.  Checked under SpecSeed. *)
IsRamp(rows) ==
    /\ Cardinality(rows) = 15
    /\ {r.day : r \in rows} = 1..15
    /\ \A r, q \in rows : r.day < q.day => r.target_emails < q.target_emails
    /\ \A r \in rows : (r.day = 1) => (r.target_emails = 5)
    /\ \A r \in rows : (r.day = 15) => (r.target_emails = 100)

C26_SeedOnlyWhenEmpty ==
    [][reply' = reply =>
          /\ (schedule # {}) => (schedule' = schedule)
          /\ (schedule = {}) => IsRamp(schedule')
          /\ (email_addresses # {}) => (email_addresses' = email_addresses)
          /\ seed_schedule(schedule') = schedule'
          /\ seed_addresses(email_addresses', config) = email_addresses']_vars

(* the process has started on a schedule the user had edited: the ramp
   without its second day and with the first day switched off, and the
   address rows *)
C26_Witness ==
    /\ Cardinality(schedule) = 14
    /\ \A r \in schedule : r.day # 2
    /\ \E r \in schedule : r.day = 1 /\ ~r.enabled
    /\ \E r \in schedule : r.day = 15 /\ r.target_emails = 100
    /\ email_addresses # {}
    /\ Served = MaxRequests

----------------------------------------------------------------------------
(* C28: in the daily batch and in the manual send a pause follows every
   message but the last: an iteration of the batch is followed by a pause
   exactly when another iteration follows, a batch of n >= 1 messages has
   paused n - 1 times when it ends and a batch of none not at all, and a
   manual send of count messages pauses count - 1 times, not at all for
   count = 0.  Checked under SpecManual. *)
PausesFor(n) == IF n >= 1 THEN n - 1 ELSE 0

C28_PauseBetweenMessages ==
    [][/\ (session'["cron"].i = session["cron"].i + 1) =>
             (session'["cron"].pauses - session["cron"].pauses =
                 IF session'["cron"].i < session["cron"].target_emails THEN 1 ELSE 0)
       /\ (BatchEnds("cron") /\ executions' # executions) =>
             (session["cron"].pauses = PausesFor(session["cron"].target_emails))
       /\ (reply' # reply /\ ManualRequest.result.success) =>
             (ManualRequest.pauses = PausesFor(ManualRequest.count))]_vars

(* after a manual send of two messages with its one pause, a batch of two
   has made its second call of the sender, having paused once *)
C28_Witness ==
    /\ IsSet(reply)
    /\ Val(reply).request.count = 2 /\ Val(reply).request.pauses = 1
    /\ session["cron"].pc = "loop"
    /\ session["cron"].target_emails = 2 /\ session["cron"].i = 2
    /\ session["cron"].pauses = 1

----------------------------------------------------------------------------
(* C31: an email that is read or moved has delivery_status 'inbox';
   moved_to_folder is one of Archive, Important and Work and is set only
   when a call of move_to_folder for the email returned True; a call of
   mark_as_read or move_to_folder that returned False leaves the email with
   the delivery_status 'inbox' and the checked_at the sweep gave it.
   Checked under SpecCheck. *)
C31_EngagementInInbox ==
    \A k \in 1..Len(emails) :
        /\ (emails[k].is_read \/ IsSet(emails[k].moved_to_folder)) =>
              emails[k].delivery_status = "inbox"
        /\ IsSet(emails[k].moved_to_folder) =>
              /\ Val(emails[k].moved_to_folder) \in {"Archive", "Important", "Work"}
              /\ imapCalls[k].moved >= 1
        /\ (imapCalls[k].mark_as_read > imapCalls[k].marked
              \/ imapCalls[k].move_to_folder > imapCalls[k].moved) =>
              /\ emails[k].delivery_status = "inbox"
              /\ IsSet(emails[k].checked_at)

(* one email was read and moved to Work, for another the move failed *)
C31_Witness ==
    \E j, k \in 1..Len(emails) :
        /\ emails[j].moved_to_folder = Some("Work")
        /\ imapCalls[k].move_to_folder = 1 /\ imapCalls[k].moved = 0
        /\ emails[k].moved_to_folder = None
        /\ emails[k].delivery_status = "inbox"

(* C36: is_read of an email is true only if a call of mark_as_read for it
   returned True; after a call that returned False it stays false. *)
C36_ReadFlagReflectsMailbox ==
    \A k \in 1..Len(emails) : emails[k].is_read => imapCalls[k].marked >= 1

(* C32: under the fair schedule of sweeps and clock, every row that is
   'pending' eventually has another delivery_status and its checked_at
   set: whenever some row is pending, a state follows in which every row
   the store holds, that row among them, has been checked.  And a sweep
   that finds N eligible rows leaves N - min(N, CHECK_LIMIT) of them
   eligible, so the rows beyond the limit are taken by the sweeps that
   follow. *)
C32_EveryCheckPerformed ==
    /\ (\E k \in 1..Len(emails) : emails[k].delivery_status = "pending")
          ~> (\A k \in 1..Len(emails) :
                 /\ emails[k].delivery_status # "pending"
                 /\ IsSet(emails[k].checked_at))
    /\ [][SweepStep =>
            LET N == Cardinality(Eligible(emails, now))
                taken == IF N < CHECK_LIMIT THEN N ELSE CHECK_LIMIT
            IN  Cardinality(Eligible(emails', now')) = N - taken]_vars

(* C32: CHECK_LIMIT + MaxOver rows were due at once, more than one sweep
   takes, and every one of them has been checked *)
C32_Witness ==
    /\ Len(emails) = CHECK_LIMIT + MaxOver
    /\ \A k \in 1..Len(emails) :
          /\ emails[k].delivery_status # "pending"
          /\ IsSet(emails[k].checked_at)
    /\ \A j, k \in 1..Len(emails) : emails[j].sent_at = emails[k].sent_at

(* C33: every stored statistics row, of today or of an earlier date, holds
   as inbox and spam counts the numbers of emails sent on its date that
   have that delivery_status now. *)
C33_StatisticsFaithfulEveryDate ==
    \A r \in statistics :
        /\ r.emails_inbox = CountsOn(r.date * DayLen).emails_inbox
        /\ r.emails_spam = CountsOn(r.date * DayLen).emails_spam

(* C37: after any sequence of create, update and bulk-update requests every
   row of the schedule has target_emails >= 0. *)
C37_TargetsNonNegative ==
    \A r \in schedule : r.target_emails >= 0

(* C34: once a first execution exists, no step on a fixed date changes the
   current warmup day, a step to the next date raises it by exactly 1, and
   no step at all lowers it. *)
C34_WarmupDayMonotone ==
    [][/\ get_current_warmup_day' >= get_current_warmup_day
       /\ (executions # << >> /\ today' = today) =>
              get_current_warmup_day' = get_current_warmup_day
       /\ (executions # << >> /\ today' = today + 1) =>
              get_current_warmup_day' = get_current_warmup_day + 1]_vars

(* No enabled row of the schedule has day 1 and no execution exists *)
RampNeverStarts ==
    /\ executions = << >>
    /\ \A s \in schedule : ~(s.day = 1 /\ s.enabled)

(* The current warmup day exceeds the day of every enabled row *)
RampEnded == \A s \in schedule : s.enabled => s.day < get_current_warmup_day

(* C35: while no execution exists the current warmup day is 1.  With the
   schedule left as it is: when no enabled row has day 1 and no execution
   exists, that remains so after every step, and when the warmup day
   exceeds the day of every enabled row, that remains so after every step;
   in either case an invoker that is idle stays idle, its send_daily_batch
   returning 'No schedule for today' (a restart of the process clears the
   return), and with every invoker idle no message is sent by the batch
   and no execution is created. *)
C35_RampStartAndEnd ==
    /\ [](executions = << >> => get_current_warmup_day = 1)
    /\ [](RampNeverStarts => \A p \in Invokers : session[p].pc = "idle")
    /\ [][(RampNeverStarts \/ RampEnded) =>
             /\ (RampNeverStarts => RampNeverStarts')
             /\ (RampEnded => RampEnded')
             /\ \A p \in Invokers :
                    session[p].pc = "idle" =>
                       /\ session'[p].pc = "idle"
                       /\ ret'[p] \in {ret[p], NoReturn, Failure("No schedule for today")}
             /\ (\A p \in Invokers : session[p].pc = "idle") =>
                    /\ senderCalls' = senderCalls
                    /\ executions' = executions]_vars

(* C35: on the second date, with day 1 disabled and day 2 enabled, both
   invokers' batches have returned 'No schedule for today', no execution
   exists and the batch has sent nothing *)
C35_Witness ==
    /\ today = 1
    /\ RampNeverStarts
    /\ \E s \in schedule : s.day = 2 /\ s.enabled
    /\ \A p \in Invokers : ret[p] = Failure("No schedule for today")
    /\ \A d \in Dates : senderCalls[d] = 0

(* C38: with the sweeps of the two triggers overlapping, no email is
   passed to the mailbox checker more than once, and no commit of a sweep
   writes the delivery_status of a row that has been written before. *)
C38_NoDoubleCheck ==
    /\ [](\A k \in 1..Len(emails) : imapCalls[k].check_email <= 1)
    /\ [][\A p \in Invokers :
             (sweeps[p].pc = "loop" /\ sweeps'[p].pc = "idle") =>
                 \A k \in sweeps[p].selected :
                    /\ emails[k].delivery_status = "pending"
                    /\ emails[k].checked_at = None]_vars
====
